---- MODULE Spec2Model ----
(***************************************************************************)
(* Credential lifecycle and re-authentication of the Demox MCP server:     *)
(* OAuthManager (ensureAuthenticated, authorize, startLocalServer, the     *)
(* token file), and the CallToolRequest handler of DemoxMCPServer that     *)
(* wraps each tool in "ensure a token, invoke, on an auth error log in     *)
(* again and retry".                                                       *)
(*                                                                         *)
(* Time is Date.now() counted in ticks of TickMs milliseconds; every       *)
(* duration of the source is a whole number of ticks.                      *)
(*                                                                         *)
(* A JavaScript string is a tuple of text fragments, cut so that each      *)
(* occurrence of one of the five substrings the handler searches for is a  *)
(* fragment of its own; String.includes is then a search of the tuple.     *)
(* The Chinese text of the source is written in ASCII: the two Chinese     *)
(* markers are the fragments "<renzheng>" and "<denglu>".                  *)
(***************************************************************************)
EXTENDS Integers, Sequences, FiniteSets, TLC

VARIABLES
    now,            \* Date.now(), in ticks
    tokenFile,      \* the content of the credential file (tokenPath)
    currentToken,   \* OAuthManager.currentToken
    attempts,       \* the authorize() runs of this process, oldest first
    calls           \* the tool-call handler runs, by slot

vars == <<now, tokenFile, currentToken, attempts, calls>>

----------------------------------------------------------------------------
(* Bounds of the model *)

MaxLate == 1        \* requests a listener handles after it was closed

\* The model follows the handler runs of Slots, each from its request to its
\* response.
Slots == {1}

----------------------------------------------------------------------------
(* Durations *)

TickMs == 5 * 60 * 1000
LoginTimeout == 300000 \div TickMs                  \* setTimeout(..., 300000)
ExpiryMargin == (5 * 60 * 1000) \div TickMs         \* 5 * 60 * 1000
Day == (24 * 60 * 60 * 1000) \div TickMs            \* 1000 * 60 * 60 * 24
TokenLifetime == 30 * Day                           \* 30 * 24 * 60 * 60 * 1000
WarnDays == 3                                       \* daysLeft <= 3

----------------------------------------------------------------------------
(* Strings *)

Null == <<"#null">>         \* JavaScript null / undefined: equal to no string
Empty == << >>              \* the empty string

Truthy(s) == s # Null /\ s # Empty

\* a || b on strings
OrElse(a, b) == IF Truthy(a) THEN a ELSE b

\* String.prototype.includes, for a searched text that is one fragment
Includes(s, m) == \E i \in 1..Len(s) : s[i] = m

\* The texts given to deploy are spelled character by character (a marker of
\* an error message may stay one fragment), so that the tests on their
\* characters are computed. The 64 characters of base64, A to Z first
B64Chars ==
    <<"A", "B", "C", "D", "E", "F", "G", "H", "I", "J", "K", "L", "M",
      "N", "O", "P", "Q", "R", "S", "T", "U", "V", "W", "X", "Y", "Z",
      "a", "b", "c", "d", "e", "f", "g", "h", "i", "j", "k", "l", "m",
      "n", "o", "p", "q", "r", "s", "t", "u", "v", "w", "x", "y", "z",
      "0", "1", "2", "3", "4", "5", "6", "7", "8", "9", "+", "/">>
InB64(ch) == \E i \in 1..Len(B64Chars) : B64Chars[i] = ch
B64Val(ch) == (CHOOSE i \in 1..Len(B64Chars) : B64Chars[i] = ch) - 1

startsWith(str, pre) == Len(str) >= Len(pre) /\ SubSeq(str, 1, Len(pre)) = pre
endsWith(str, suf) ==
    Len(str) >= Len(suf) /\ SubSeq(str, Len(str) - Len(suf) + 1, Len(str)) = suf
toLowerCase(str) ==
    [i \in 1..Len(str) |->
        IF \E k \in 1..26 : B64Chars[k] = str[i]
        THEN B64Chars[B64Val(str[i]) + 27] ELSE str[i]]

\* atob(str), forgiving-base64: up to two "=" at the end of a text of 4n
\* characters are padding; it throws when a character of the rest is not of
\* the 64, or when the rest has 4n + 1 characters
Padding(str) ==
    IF Len(str) = 0 \/ Len(str) % 4 # 0 \/ str[Len(str)] # "=" THEN 0
    ELSE IF str[Len(str) - 1] = "=" THEN 2 ELSE 1
Unpadded(str) == SubSeq(str, 1, Len(str) - Padding(str))
atobThrows(str) ==
    \/ Len(Unpadded(str)) % 4 = 1
    \/ \E i \in 1..Len(Unpadded(str)) : ~InB64(Unpadded(str)[i])

\* btoa(atob(str)) === str, for a text atob accepts: btoa writes the bytes
\* back with padding, the bits atob dropped being zero
RoundTrips(str) ==
    LET body == Unpadded(str)
    IN  CASE Len(body) % 4 = 0 -> TRUE
          [] Len(body) % 4 = 2 -> Padding(str) = 2 /\ B64Val(body[Len(body)]) % 16 = 0
          [] OTHER -> Padding(str) = 1 /\ B64Val(body[Len(body)]) % 4 = 0

\* DemoxClient.isBase64
isBase64(str) ==
    IF atobThrows(str)
    THEN ~Includes(str, "/") /\ ~Includes(str, "\\") /\ Len(str) > 100
    ELSE RoundTrips(str)

----------------------------------------------------------------------------
(* Error messages, as the source builds them *)

MsgDenied(error) == <<"OAuth authorization failed: ">> \o error
MsgStateMismatch == <<"OAuth state mismatch, possible security risk">>
MsgMissingParams == <<"missing required OAuth parameters">>
MsgLoginTimeout == <<"<denglu>", " timed out (5 minutes)">>
MsgRaceTimeout == <<"operation timed out">>
MsgSaveFailed == <<"EACCES: permission denied, open '", "~/.demox/token.json", "'">>
MsgUnknownTool(name) == <<"unknown tool: ">> \o name
MsgMissingArg(param) == <<"missing required parameter: ", param>>
MsgPathMissing(path) == <<"path does not exist: ">> \o path
MsgHttp(status, body) == <<"HTTP ", status, ": ">> \o body
MsgBackend(code, message) == <<"[", code, "] ">> \o message
MsgUrlNotZip == <<"only ZIP files are supported, the URL must end with .zip">>
MsgBase64 == <<"Base64 content is not supported, give the path or URL of a ZIP file">>
MsgFileType == <<"unsupported file type, only .zip files or directories">>
MsgDownload == <<"download failed: Not Found">>
MsgTooLarge == <<"file too large, at most 500MB">>

----------------------------------------------------------------------------
(* The credential store *)

Scopes == <<"website:deploy", "website:list", "website:delete", "website:update">>
ClientId == <<"demox-mcp-client">>

NoToken == [null |-> TRUE]                  \* TokenData | null: null
FileAbsent == [kind |-> "absent"]
FileUnreadable == [kind |-> "unreadable"]   \* exists, fs.readFile throws
FileGarbage == [kind |-> "garbage"]         \* exists, JSON.parse throws

\* JSON.parse gives whatever object the file holds: a property the object lacks
\* reads as undefined
Undefined == <<"#undefined">>
Has(tokenData, f) == f \in DOMAIN tokenData
Get(tokenData, f) == IF Has(tokenData, f) THEN tokenData[f] ELSE Undefined

\* the property names of the model, in the order of the TokenData literal
Fields ==
    <<"accessToken", "refreshToken", "expiresAt", "scopes", "userId", "clientId">>

\* Variant of JSON.stringify that leaves userId out
JSONstringify_NoUserId(value) ==
    LET all == [i \in 1..Len(Fields) |-> <<Fields[i], Get(value, Fields[i])>>]
    IN  SelectSeq(all, LAMBDA p : Has(value, p[1]) /\ p[1] # "userId")

\* JSON.stringify(value, null, 2): the properties the object has, in their
\* order, as <<name, value>> members
JSONstringify(value) ==
    LET all == [i \in 1..Len(Fields) |-> <<Fields[i], Get(value, Fields[i])>>]
    IN  SelectSeq(all, LAMBDA p : Has(value, p[1]))

\* JSON.parse(text): the object of the members, the last one of a name
\* giving its value
JSONparse(text) ==
    LET names == { text[i][1] : i \in 1..Len(text) }
        last(f) == CHOOSE i \in 1..Len(text) :
                       /\ text[i][1] = f
                       /\ \A j \in (i + 1)..Len(text) : text[j][1] # f
    IN  [f \in names |-> text[last(f)][2]]

\* the file fs.writeFile(tokenPath, JSON.stringify(data, null, 2)) leaves
FileJson(data) == [kind |-> "json", text |-> JSONstringify(data)]

\* Variant of loadToken that answers a file it cannot give with a blank
\* record that does not expire
loadToken_Blank(file) ==
    IF file.kind = "json" THEN JSONparse(file.text)
    ELSE [accessToken |-> Empty, refreshToken |-> Empty,
          expiresAt |-> 2 * TokenLifetime, scopes |-> Scopes,
          userId |-> Empty, clientId |-> ClientId]

\* loadToken(): the parsed content, or null when the file is absent or
\* reading or parsing it throws
loadToken(file) == IF file.kind = "json" THEN JSONparse(file.text) ELSE NoToken

\* Variants of isTokenExpired that a property about the margin must tell from
\* it: the strict comparison, and twice the margin
isTokenExpired_Strict(tokenData, t) ==
    Has(tokenData, "expiresAt") /\ t > tokenData.expiresAt - ExpiryMargin
isTokenExpired_Twice(tokenData, t) ==
    Has(tokenData, "expiresAt") /\ t >= tokenData.expiresAt - 2 * ExpiryMargin

\* isTokenExpired(tokenData) at Date.now() = t. Without expiresAt the right
\* side is undefined - 300000 = NaN, and every comparison with NaN is false
isTokenExpired(tokenData, t) ==
    Has(tokenData, "expiresAt") /\ t >= tokenData.expiresAt - ExpiryMargin

\* Math.floor((expiresAt - Date.now()) / (1000 * 60 * 60 * 24)) <= 3; \div
\* rounds down, as Math.floor does; NaN <= 3 is false
daysLeft(tokenData, t) == (tokenData.expiresAt - t) \div Day
ExpiresSoon(tokenData, t) ==
    Has(tokenData, "expiresAt") /\ daysLeft(tokenData, t) <= WarnDays

\* the cached-token branch of ensureAuthenticated(): taken at time t
UsesCached(tokenData, t) == tokenData # NoToken /\ ~isTokenExpired(tokenData, t)

\* Variant of tokenDataOf without the fallbacks of refreshToken and userId
tokenDataOf_NoFallback(accessToken, refreshToken, userId, t) ==
    [accessToken |-> accessToken,
     refreshToken |-> refreshToken,
     expiresAt |-> t + TokenLifetime,
     scopes |-> Scopes,
     userId |-> userId,
     clientId |-> ClientId]

\* the record startLocalServer builds from an accepted callback at time t
tokenDataOf(accessToken, refreshToken, userId, t) ==
    [accessToken |-> accessToken,
     refreshToken |-> OrElse(refreshToken, accessToken),
     expiresAt |-> t + TokenLifetime,
     scopes |-> Scopes,
     userId |-> OrElse(userId, Empty),
     clientId |-> ClientId]

----------------------------------------------------------------------------
(* Promises *)

Pending == [t |-> "pending"]
Resolved(v) == [t |-> "ok", v |-> v]
Rejected(msg) == [t |-> "err", msg |-> msg]

\* Variant of Settle in which a later resolve / reject replaces the first
Settle_Last(p, outcome) == IF outcome = Pending THEN p ELSE outcome

\* resolve / reject of a promise: the first settlement stays
Settle(p, outcome) == IF p = Pending THEN outcome ELSE p

----------------------------------------------------------------------------
(* The backend and the tools *)

\* what the cloud function answers to one POST
ReplyOk(payload) == [t |-> "ok", payload |-> payload]
ReplyHttp(status, body) == [t |-> "http", status |-> status, body |-> body]
ReplyError(code, message) == [t |-> "error", code |-> code, message |-> message]

BackendReplies ==
    { ReplyOk(<<"r1">>),
      ReplyHttp("401", <<"Unauthorized">>),
      ReplyError("NOT_FOUND", <<"no such website">>) }

\* what one invocation of a tool method ends with: posts counts the POSTs it
\* made, status is response.status of the last one
\* resolved is how deploy got its ZIP file, uploads counts the uploads to the
\* storage
Returned(text, posts, status) ==
    [ok |-> TRUE, invoked |-> TRUE, text |-> text, posts |-> posts, status |-> status,
     resolved |-> "none", uploads |-> 0]
Threw(msg, posts, status) ==
    [ok |-> FALSE, invoked |-> TRUE, msg |-> msg, posts |-> posts, status |-> status,
     resolved |-> "none", uploads |-> 0]
\* the default branch of switch (name): no tool method is invoked
NotRouted(msg) ==
    [ok |-> FALSE, invoked |-> FALSE, msg |-> msg, posts |-> 0, status |-> "none",
     resolved |-> "none", uploads |-> 0]

\* DemoxClient.callFunction: one POST; throws on a non-2xx status and on an
\* error envelope, else returns the response data
callFunction(reply, text) ==
    CASE reply.t = "http" -> Threw(MsgHttp(reply.status, reply.body), 1, reply.status)
      [] reply.t = "error" -> Threw(MsgBackend(reply.code, reply.message), 1, "200")
      [] OTHER -> Returned(text \o reply.payload, 1, "200")

\* a zipFile argument: its text and what is behind it. For a path: whether it
\* exists, whether it is a directory, and the size of the file or of the
\* archive made of the directory; for a URL: whether fetch gets it, and the
\* size of what it gets
PathInput(text, exists, isDir, size) ==
    [text |-> text, exists |-> exists, isDir |-> isDir, size |-> size]

Http == <<"h", "t", "t", "p", ":", "/", "/">>
Https == <<"h", "t", "t", "p", "s", ":", "/", "/">>
DotZip == <<".", "z", "i", "p">>

\* const maxFileSize = 500 * 1024 * 1024
MaxFileSize == 500 * 1024 * 1024
TooLarge_Inclusive(fileSize) == fileSize >= MaxFileSize     \* variant
TooLarge(fileSize) == fileSize > MaxFileSize

\* the first part of deployWebsite: the input is made a local ZIP file, by
\* download, by archiving a directory, or as it is, or an error is thrown
ResolveInput(zipFile) ==
    LET text == zipFile.text
        Fail(msg) == [ok |-> FALSE, msg |-> msg, how |-> "none"]
        Done(how) == [ok |-> TRUE, msg |-> Empty, how |-> how]
    IN  IF startsWith(text, Http) \/ startsWith(text, Https)
        THEN IF ~endsWith(toLowerCase(text), DotZip) THEN Fail(MsgUrlNotZip)
             ELSE IF ~zipFile.exists THEN Fail(MsgDownload)
             ELSE Done("download")
        ELSE IF isBase64(text) /\ ~startsWith(text, <<"/">>)
                /\ ~startsWith(text, <<".">>)
        THEN Fail(MsgBase64)
        ELSE IF ~zipFile.exists THEN Fail(MsgPathMissing(text))
        ELSE IF zipFile.isDir THEN Done("archive")
        ELSE IF endsWith(toLowerCase(text), DotZip) THEN Done("file")
        ELSE Fail(MsgFileType)

\* DemoxClient.deployWebsite: resolve the input, check the size, upload the
\* file to the storage and POST the deploy action
deployWebsite(zipFile, reply) ==
    LET r == ResolveInput(zipFile)
    IN  IF ~r.ok THEN Threw(r.msg, 0, "none")
        ELSE IF TooLarge(zipFile.size)
        THEN [Threw(MsgTooLarge, 0, "none") EXCEPT !.resolved = r.how]
        ELSE [callFunction(reply, <<"deployed ">> \o zipFile.text \o <<": ">>)
                 EXCEPT !.resolved = r.how, !.uploads = 1]

handleDeploy(args, reply) ==
    IF ~Truthy(args.zipFile.text) THEN Threw(MsgMissingArg("zipFile"), 0, "none")
    ELSE deployWebsite(args.zipFile, reply)

handleList(reply) == callFunction(reply, <<"websites: ">>)

handleGet(args, reply) ==
    IF ~Truthy(args.websiteId) THEN Threw(MsgMissingArg("websiteId"), 0, "none")
    ELSE callFunction(reply, <<"website ">> \o args.websiteId \o <<": ">>)

handleDelete(args, reply) ==
    IF ~Truthy(args.websiteId) THEN Threw(MsgMissingArg("websiteId"), 0, "none")
    ELSE callFunction(reply, <<"deleted ">> \o args.websiteId \o <<": ">>)

\* switch (name) of the handler: the same in the first try and in the retry
Route(name, args, reply) ==
    CASE name = <<"deploy_website">> -> handleDeploy(args, reply)
      [] name = <<"list_websites">> -> handleList(reply)
      [] name = <<"get_website">> -> handleGet(args, reply)
      [] name = <<"delete_website">> -> handleDelete(args, reply)
      [] OTHER -> NotRouted(MsgUnknownTool(name))

NoArgs == [zipFile |-> PathInput(Null, FALSE, FALSE, 0), websiteId |-> Null]

\* request.params of the tool calls the model issues
ToolRequests ==
    { [name |-> <<"list_websites">>, args |-> NoArgs],
      [name |-> <<"get_website">>, args |-> NoArgs],
      [name |-> <<"delete_website">>, args |-> [NoArgs EXCEPT !.websiteId = <<"W1">>]],
      [name |-> <<"deploy_website">>,
       args |-> [NoArgs EXCEPT !.zipFile = PathInput(<<".", "/", "Token", "-", "s", "i", "t", "e">>,
                                               FALSE, FALSE, 0)]],
      [name |-> <<"refresh", "Token">>, args |-> NoArgs] }

\* the five substrings the handler looks for in error.message
AuthMarkers == {"Token", "<renzheng>", "<denglu>", "UNAUTHORIZED", "401"}

\* Variant of isAuthError that takes every error for an auth error
isAuthError_Any(msg) == Len(msg) >= 0

isAuthError(msg) == \E m \in AuthMarkers : Includes(msg, m)

\* the two error responses of the handler
RespError(msg) == [isError |-> TRUE, text |-> <<"error: ">> \o msg]
RespAutoLoginFailed(msg) ==
    [isError |-> TRUE,
     text |-> <<"**auto login failed** error: ">> \o msg
              \o <<" run this command to log in: ", "demox-mcp login",
                   " then call this tool again.">>]
RespOk(text) == [isError |-> FALSE, text |-> text]
NoResp == [none |-> TRUE]

----------------------------------------------------------------------------
(* authorize() runs and handler runs *)

\* no request has reached the listener / no error was caught
NoRequest == [none |-> TRUE]
NoError == [none |-> TRUE]

\* generateRandomState(): run k of the process draws the k-th value
StateTokens == { <<"s1">>, <<"s2">> }
generateRandomState(k) == IF k % 2 = 1 THEN <<"s1">> ELSE <<"s2">>

\* an authorize() run from its call to the await of open(authUrl)
AuthorizeStart(owner, k) ==
    [owner |-> owner, state |-> generateRandomState(k), phase |-> "open",
     server |-> "none", listenAt |-> 0,
     srvTimer |-> "none", raceTimer |-> "none",
     promise |-> Pending, race |-> Pending, result |-> Pending,
     first |-> NoRequest, late |-> 0, saved |-> FALSE]

\* process.exit has not been called; the command run before this one
NotExited == -1
NoPrev == [none |-> TRUE]

\* a handler run that has not started. cmd is "tool" for the tool-call handler
\* of the server and the name of the command for a run of the CLI, exit the
\* code of process.exit, unlink what became of the deletion of the token file
IdleCall ==
    [pc |-> "idle", name |-> Empty, args |-> NoArgs,
     accessToken |-> Null, newAccessToken |-> Null,
     loaded |-> NoToken, loadedAt |-> 0, cached |-> FALSE, warned |-> FALSE,
     caught |-> NoError, auths |-> << >>, ops |-> << >>, resp |-> NoResp,
     cmd |-> "tool", exit |-> NotExited, unlink |-> "none", prev |-> NoPrev]

\* Variant of HandlerCatch that throws an error that is no auth error on to
\* the caller of the handler: the run ends without a response
HandlerCatch_Rethrow(call, msg, from, att) ==
    LET call1 == [call EXCEPT !.caught = [msg |-> msg, from |-> from]]
    IN  IF isAuthError(msg)
        THEN [call |-> [call1 EXCEPT !.pc = "reauth", !.auths = Append(@, att)],
              reauth |-> TRUE]
        ELSE [call |-> [call1 EXCEPT !.pc = "done"], reauth |-> FALSE]

\* the catch block of the handler for an error of the first try, thrown by
\* from ("authorize", "switch" or "tool"): an auth error starts authorize()
\* (attempt number att), any other is returned
HandlerCatch(call, msg, from, att) ==
    LET call1 == [call EXCEPT !.caught = [msg |-> msg, from |-> from]]
    IN  IF isAuthError(msg)
        THEN [call |-> [call1 EXCEPT !.pc = "reauth", !.auths = Append(@, att)],
              reauth |-> TRUE]
        ELSE [call |-> [call1 EXCEPT !.pc = "done", !.resp = RespError(msg)],
              reauth |-> FALSE]

\* Variant of HandlerAfterAuthorize: a failed re-login is ignored and the
\* retry runs with the token of the first try
HandlerAfterAuthorize_RetryAnyway(call, outcome, att) ==
    CASE call.pc = "ensureAuth" /\ outcome.t = "ok" ->
            [call |-> [call EXCEPT !.pc = "op1", !.accessToken = outcome.v],
             reauth |-> FALSE]
      [] call.pc = "ensureAuth" /\ outcome.t = "err" ->
            HandlerCatch(call, outcome.msg, "authorize", att)
      [] call.pc = "reauth" /\ outcome.t = "ok" ->
            [call |-> [call EXCEPT !.pc = "op2", !.newAccessToken = outcome.v],
             reauth |-> FALSE]
      [] OTHER ->
            [call |-> [call EXCEPT !.pc = "op2", !.newAccessToken = call.accessToken],
             reauth |-> FALSE]

\* Variant of HandlerAfterAuthorize: the error of ensureAuthenticated() is
\* returned as it is, only errors of the tool method reach the heuristic
HandlerAfterAuthorize_Direct(call, outcome, att) ==
    CASE call.pc = "ensureAuth" /\ outcome.t = "ok" ->
            [call |-> [call EXCEPT !.pc = "op1", !.accessToken = outcome.v],
             reauth |-> FALSE]
      [] call.pc = "ensureAuth" /\ outcome.t = "err" ->
            [call |-> [call EXCEPT !.pc = "done", !.resp = RespError(outcome.msg),
                                   !.caught = [msg |-> outcome.msg,
                                               from |-> "authorize"]],
             reauth |-> FALSE]
      [] call.pc = "reauth" /\ outcome.t = "ok" ->
            [call |-> [call EXCEPT !.pc = "op2", !.newAccessToken = outcome.v],
             reauth |-> FALSE]
      [] OTHER ->
            [call |-> [call EXCEPT !.pc = "done",
                                   !.resp = RespAutoLoginFailed(outcome.msg)],
             reauth |-> FALSE]

\* the handler when the authorize() it awaits settles with outcome
HandlerAfterAuthorize(call, outcome, att) ==
    CASE call.pc = "ensureAuth" /\ outcome.t = "ok" ->
            [call |-> [call EXCEPT !.pc = "op1", !.accessToken = outcome.v],
             reauth |-> FALSE]
      [] call.pc = "ensureAuth" /\ outcome.t = "err" ->
            HandlerCatch(call, outcome.msg, "authorize", att)
      [] call.pc = "reauth" /\ outcome.t = "ok" ->
            [call |-> [call EXCEPT !.pc = "op2", !.newAccessToken = outcome.v],
             reauth |-> FALSE]
      [] OTHER ->
            [call |-> [call EXCEPT !.pc = "done",
                                   !.resp = RespAutoLoginFailed(outcome.msg)],
             reauth |-> FALSE]

\* the token the handler passes to the tool method: accessToken in the first
\* try, newAccessToken in the retry
TokenFor_FirstToken(call) == call.accessToken       \* variant: always the first
TokenFor(call) == IF call.pc = "op1" THEN call.accessToken ELSE call.newAccessToken

\* where the error of a tool call was thrown
ThrownBy(out) == IF out.invoked THEN "tool" ELSE "switch"

\* Variants of HandlerAfterTool: the result of the retry is dropped and the
\* error of the first try returned; the retry is handled like the first try
HandlerAfterTool_FallThrough(call, out, att) ==
    IF out.ok /\ call.pc = "op1"
    THEN [call |-> [call EXCEPT !.pc = "done", !.resp = RespOk(out.text)],
          reauth |-> FALSE]
    ELSE IF out.ok
    THEN [call |-> [call EXCEPT !.pc = "done", !.resp = RespError(call.caught.msg)],
          reauth |-> FALSE]
    ELSE IF call.pc = "op1"
    THEN HandlerCatch(call, out.msg, ThrownBy(out), att)
    ELSE [call |-> [call EXCEPT !.pc = "done", !.resp = RespAutoLoginFailed(out.msg)],
          reauth |-> FALSE]
HandlerAfterTool_Loop(call, out, att) ==
    IF out.ok
    THEN [call |-> [call EXCEPT !.pc = "done", !.resp = RespOk(out.text)],
          reauth |-> FALSE]
    ELSE HandlerCatch(call, out.msg, ThrownBy(out), att)

\* the handler when the tool method of the first try (pc = "op1") or of the
\* retry (pc = "op2") returns or throws out
HandlerAfterTool(call, out, att) ==
    IF out.ok
    THEN [call |-> [call EXCEPT !.pc = "done", !.resp = RespOk(out.text)],
          reauth |-> FALSE]
    ELSE IF call.pc = "op1"
    THEN HandlerCatch(call, out.msg, ThrownBy(out), att)
    ELSE [call |-> [call EXCEPT !.pc = "done", !.resp = RespAutoLoginFailed(out.msg)],
          reauth |-> FALSE]

\* a CLI command ends with process.exit(code)
CliExit(call, code) == [call EXCEPT !.pc = "done", !.exit = code]

\* a CLI command when the authorize() it awaits settles: login exits, the
\* commands that called ensureAuthenticated() go on to their operation; any
\* error is caught, logged and ends the command with exit code 1
CliAfterAuthorize(call, outcome) ==
    IF outcome.t = "err"
    THEN [call |-> CliExit([call EXCEPT !.caught = [msg |-> outcome.msg,
                                                    from |-> "authorize"]], 1),
          reauth |-> FALSE]
    ELSE IF call.cmd = "login"
    THEN [call |-> CliExit([call EXCEPT !.accessToken = outcome.v], 0),
          reauth |-> FALSE]
    ELSE [call |-> [call EXCEPT !.pc = "op1", !.accessToken = outcome.v],
          reauth |-> FALSE]

\* authorize() run a, now att1, returns or throws outcome to its caller
AuthorizeSettles(a, att1, outcome) ==
    LET c == att1.owner
        k == IF calls[c].cmd = "tool"
             THEN HandlerAfterAuthorize(calls[c], outcome, Len(attempts) + 1)
             ELSE CliAfterAuthorize(calls[c], outcome)
        done == [attempts EXCEPT ![a] = [att1 EXCEPT !.phase = "done",
                                                     !.result = outcome]]
    IN  /\ calls' = [calls EXCEPT ![c] = k.call]
        /\ attempts' = IF k.reauth THEN Append(done, AuthorizeStart(c, Len(attempts) + 1))
                       ELSE done

\* the await of Promise.race in authorize(): run a becomes att1 by an event;
\* when the event settled the race, authorize() goes on to saveToken or throws
AfterEvent(a, att1) ==
    IF attempts[a].phase = "wait" /\ attempts[a].race = Pending
       /\ att1.race # Pending
    THEN IF att1.race.t = "ok"
         THEN /\ attempts' = [attempts EXCEPT ![a] = [att1 EXCEPT !.phase = "save"]]
              /\ UNCHANGED calls
         ELSE AuthorizeSettles(a, att1, att1.race)
    ELSE /\ attempts' = [attempts EXCEPT ![a] = att1]
         /\ UNCHANGED calls

----------------------------------------------------------------------------
(* The callback listener *)

\* url.searchParams of the requests the model sends
AccessTokens == { <<"tokA">>, <<"tokB">> }
Callback(error, accessToken, state) ==
    [error |-> error, access_token |-> accessToken, state |-> state,
     refresh_token |-> IF accessToken = <<"tokB">> THEN <<"refR">> ELSE Null,
     user_id |-> IF accessToken = <<"tokB">> THEN <<"u1">> ELSE Null]
CallbackParams ==
    { Callback(Null, tok, st) : tok \in {Null} \cup AccessTokens,
                                st \in {Null} \cup StateTokens }
    \cup { Callback(Empty, <<"tokA">>, <<"s1">>),
           Callback(Null, Empty, <<"s1">>),
           Callback(Null, <<"tokA">>, Empty),
           Callback(<<"access_denied">>, Null, Null),
           Callback(<<"invalid ", "Token">>, <<"tokA">>, <<"s2">>) }

\* a run that has settled hears the same from every request: a sample
LateCallbacks ==
    { Callback(Null, <<"tokA">>, <<"s1">>), Callback(Null, <<"tokB">>, <<"s2">>),
      Callback(<<"access_denied">>, Null, Null) }
RequestsTo(att) == IF att.promise = Pending THEN CallbackParams ELSE LateCallbacks

\* Variants of callbackHandler: one does not compare the state, one leaves the
\* server open when parameters are missing
callbackHandler_AnyState(q, expectedState, t) ==
    IF Truthy(q.error)
    THEN [status |-> 200, closes |-> TRUE, settle |-> Rejected(MsgDenied(q.error))]
    ELSE IF Truthy(q.access_token) /\ Truthy(q.state)
    THEN [status |-> 200, closes |-> TRUE,
          settle |-> Resolved(tokenDataOf(q.access_token, q.refresh_token,
                                          q.user_id, t))]
    ELSE [status |-> 400, closes |-> TRUE, settle |-> Rejected(MsgMissingParams)]
callbackHandler_LeaveOpen(q, expectedState, t) ==
    IF Truthy(q.error)
    THEN [status |-> 200, closes |-> TRUE, settle |-> Rejected(MsgDenied(q.error))]
    ELSE IF Truthy(q.access_token) /\ Truthy(q.state)
    THEN IF q.state # expectedState
         THEN [status |-> 400, closes |-> TRUE, settle |-> Rejected(MsgStateMismatch)]
         ELSE [status |-> 200, closes |-> TRUE,
               settle |-> Resolved(tokenDataOf(q.access_token, q.refresh_token,
                                               q.user_id, t))]
    ELSE [status |-> 400, closes |-> FALSE, settle |-> Rejected(MsgMissingParams)]

\* Variants of callbackHandler: one accepts an access_token that comes
\* without a state, one looks at the token before the error parameter
callbackHandler_StateOptional(q, expectedState, t) ==
    IF Truthy(q.error)
    THEN [status |-> 200, closes |-> TRUE, settle |-> Rejected(MsgDenied(q.error))]
    ELSE IF Truthy(q.access_token)
    THEN IF Truthy(q.state) /\ q.state # expectedState
         THEN [status |-> 400, closes |-> TRUE, settle |-> Rejected(MsgStateMismatch)]
         ELSE [status |-> 200, closes |-> TRUE,
               settle |-> Resolved(tokenDataOf(q.access_token, q.refresh_token,
                                               q.user_id, t))]
    ELSE [status |-> 400, closes |-> TRUE, settle |-> Rejected(MsgMissingParams)]
callbackHandler_TokenFirst(q, expectedState, t) ==
    IF Truthy(q.access_token) /\ Truthy(q.state)
    THEN IF q.state # expectedState
         THEN [status |-> 400, closes |-> TRUE, settle |-> Rejected(MsgStateMismatch)]
         ELSE [status |-> 200, closes |-> TRUE,
               settle |-> Resolved(tokenDataOf(q.access_token, q.refresh_token,
                                               q.user_id, t))]
    ELSE IF Truthy(q.error)
    THEN [status |-> 200, closes |-> TRUE, settle |-> Rejected(MsgDenied(q.error))]
    ELSE [status |-> 400, closes |-> TRUE, settle |-> Rejected(MsgMissingParams)]

\* the request handler of startLocalServer at time t: the status it answers
\* with, whether it calls server.close(), and the resolve or reject it calls
\* Variant of callbackHandler that serves /callback only: a request to another
\* path is answered 404 and leaves the login waiting
callbackHandler_CallbackOnly(q, expectedState, t) ==
    IF q.path # <<"/callback">>
    THEN [status |-> 404, closes |-> FALSE, settle |-> Pending]
    ELSE IF Truthy(q.error)
    THEN [status |-> 200, closes |-> TRUE, settle |-> Rejected(MsgDenied(q.error))]
    ELSE IF Truthy(q.access_token) /\ Truthy(q.state)
    THEN IF q.state # expectedState
         THEN [status |-> 400, closes |-> TRUE, settle |-> Rejected(MsgStateMismatch)]
         ELSE [status |-> 200, closes |-> TRUE,
               settle |-> Resolved(tokenDataOf(q.access_token, q.refresh_token,
                                               q.user_id, t))]
    ELSE [status |-> 400, closes |-> TRUE, settle |-> Rejected(MsgMissingParams)]

callbackHandler(q, expectedState, t) ==
    IF Truthy(q.error)
    THEN [status |-> 200, closes |-> TRUE, settle |-> Rejected(MsgDenied(q.error))]
    ELSE IF Truthy(q.access_token) /\ Truthy(q.state)
    THEN IF q.state # expectedState
         THEN [status |-> 400, closes |-> TRUE, settle |-> Rejected(MsgStateMismatch)]
         ELSE [status |-> 200, closes |-> TRUE,
               settle |-> Resolved(tokenDataOf(q.access_token, q.refresh_token,
                                               q.user_id, t))]
    ELSE [status |-> 400, closes |-> TRUE, settle |-> Rejected(MsgMissingParams)]

\* the request and what it carried, as seen by the run that served it
RequestSeen(q, att) ==
    [q |-> q, error |-> Truthy(q.error), token |-> Truthy(q.access_token),
     state |-> IF ~Truthy(q.state) THEN "none"
               ELSE IF q.state = att.state THEN "same" ELSE "other"]

\* fs.writeFile of saveToken succeeds or throws
SaveOutcomes == {"written", "EACCES"}

----------------------------------------------------------------------------
(* Initial state *)

\* a record written by an earlier login, expiring at time e
StoredToken(e) ==
    [accessToken |-> <<"tokA">>, refreshToken |-> <<"refA">>, expiresAt |-> e,
     scopes |-> Scopes, userId |-> <<"u0">>, clientId |-> ClientId]

\* the process starts at Start: the stored record is past its expiry, exactly
\* or one tick more than the margin before it, or fresh
Start == ExpiryMargin
InitialExpiries ==
    {Start - 1, Start, Start + ExpiryMargin, Start + ExpiryMargin + 1,
     Start + TokenLifetime}

InitialFiles ==
    {FileAbsent, FileUnreadable, FileGarbage}
    \cup { FileJson(StoredToken(e)) : e \in InitialExpiries }

Init ==
    /\ now = Start
    /\ tokenFile \in InitialFiles
    /\ currentToken = NoToken
    /\ attempts = << >>
    /\ calls = [c \in Slots |-> IdleCall]

----------------------------------------------------------------------------
(* Actions *)

\* when the two timers of an authorize() run are due
Deadline_AtOnce(att) == att.listenAt                \* variant: no delay
Deadline(att) == att.listenAt + LoginTimeout

\* Promise.race adopts the settlement of startLocalServer's promise
Adopt(race, promise) == IF promise = Pending THEN race ELSE Settle(race, promise)

\* ensureAuthenticated() called by the run call0 of slot c: loads the token
\* and returns it, or calls authorize()
ensureAuthenticated(c, call0) ==
    LET tokenData == loadToken(tokenFile)
        call == [call0 EXCEPT !.loaded = tokenData, !.loadedAt = now]
    IN  IF UsesCached(tokenData, now)
        THEN /\ currentToken' = tokenData
             /\ calls' = [calls EXCEPT ![c] =
                    [call EXCEPT !.pc = "op1", !.cached = TRUE,
                                 !.accessToken = Get(tokenData, "accessToken"),
                                 !.warned = ExpiresSoon(tokenData, now)]]
             /\ UNCHANGED attempts
        ELSE /\ calls' = [calls EXCEPT ![c] =
                    [call EXCEPT !.pc = "ensureAuth",
                                 !.auths = <<Len(attempts) + 1>>]]
             /\ attempts' = Append(attempts, AuthorizeStart(c, Len(attempts) + 1))
             /\ UNCHANGED currentToken

\* The handler is called with request.params = req
StartCall(c, req) ==
    /\ calls[c].pc = "idle"
    /\ ensureAuthenticated(c, [IdleCall EXCEPT !.name = req.name,
                                               !.args = req.args])
    /\ UNCHANGED <<now, tokenFile>>

\* Variant of Listen that sets neither the timer of startLocalServer nor
\* that of createTimeout
Listen_NoTimer(a) ==
    /\ attempts[a].phase = "open"
    /\ \A b \in 1..Len(attempts) : attempts[b].server # "listening"
    /\ attempts' = [attempts EXCEPT ![a] =
           [@ EXCEPT !.phase = "wait", !.server = "listening", !.listenAt = now]]
    /\ UNCHANGED <<now, tokenFile, currentToken, calls>>

\* open(authUrl) has returned or thrown: startLocalServer creates the server,
\* listens on port 39897 and sets its timer; createTimeout sets the second
Listen(a) ==
    /\ attempts[a].phase = "open"
    /\ \A b \in 1..Len(attempts) : attempts[b].server # "listening"
    /\ attempts' = [attempts EXCEPT ![a] =
           [@ EXCEPT !.phase = "wait", !.server = "listening", !.listenAt = now,
                     !.srvTimer = "pending", !.raceTimer = "pending"]]
    /\ UNCHANGED <<now, tokenFile, currentToken, calls>>

\* Variant of Request in which the handler writes the record as soon as the
\* request carries access_token and state, before it compares the state
Request_StoreEarly(a, q) ==
    /\ \/ attempts[a].server = "listening"
       \/ attempts[a].server = "closed" /\ attempts[a].late < MaxLate
    /\ LET att == attempts[a]
           h == callbackHandler(q, att.state, now)
           promise == Settle(att.promise, h.settle)
           att1 == [att EXCEPT !.server = IF h.closes THEN "closed" ELSE @,
                               !.promise = promise,
                               !.race = Adopt(@, promise),
                               !.first = IF att.promise = Pending
                                         THEN RequestSeen(q, att) ELSE @,
                               !.late = IF att.server = "closed" THEN @ + 1 ELSE @]
       IN  /\ AfterEvent(a, att1)
           /\ tokenFile' = IF ~Truthy(q.error) /\ Truthy(q.access_token)
                              /\ Truthy(q.state)
                           THEN FileJson(tokenDataOf(q.access_token, q.refresh_token,
                                                     q.user_id, now))
                           ELSE tokenFile
    /\ UNCHANGED <<now, currentToken>>

\* A request is handled. The server takes the requests of the clients that
\* connected while it listened: after close() it hears only from connections
\* accepted before (late counts those requests)
Request(a, q) ==
    /\ \/ attempts[a].server = "listening"
       \/ attempts[a].server = "closed" /\ attempts[a].late < MaxLate
    /\ LET att == attempts[a]
           h == callbackHandler(q, att.state, now)
           promise == Settle(att.promise, h.settle)
           att1 == [att EXCEPT !.server = IF h.closes THEN "closed" ELSE @,
                               !.promise = promise,
                               !.race = Adopt(@, promise),
                               !.first = IF att.promise = Pending
                                         THEN RequestSeen(q, att) ELSE @,
                               !.late = IF att.server = "closed" THEN @ + 1 ELSE @]
       IN  AfterEvent(a, att1)
    /\ UNCHANGED <<now, tokenFile, currentToken>>

\* Variant of ServerTimeout in which the server is a field of the manager,
\* not a local of startLocalServer: the timer of a finished run closes the
\* server that listens now
ServerTimeout_Shared(a) ==
    /\ attempts[a].srvTimer = "pending"
    /\ now >= Deadline(attempts[a])
    /\ LET att == attempts[a]
           promise == Settle(att.promise, Rejected(MsgLoginTimeout))
           att1 == [att EXCEPT !.srvTimer = "fired", !.server = "closed",
                               !.promise = promise,
                               !.race = Adopt(@, promise)]
       IN  IF att.promise = Pending
           THEN AfterEvent(a, att1)
           ELSE /\ attempts' = [b \in 1..Len(attempts) |->
                      IF b = a THEN att1
                      ELSE [attempts[b] EXCEPT !.server =
                               IF @ = "listening" THEN "closed" ELSE @]]
                /\ UNCHANGED calls
    /\ UNCHANGED <<now, tokenFile, currentToken>>

\* the timer of startLocalServer fires
ServerTimeout(a) ==
    /\ attempts[a].srvTimer = "pending"
    /\ now >= Deadline(attempts[a])
    /\ LET att == attempts[a]
           promise == Settle(att.promise, Rejected(MsgLoginTimeout))
           att1 == [att EXCEPT !.srvTimer = "fired", !.server = "closed",
                               !.promise = promise,
                               !.race = Adopt(@, promise)]
       IN  AfterEvent(a, att1)
    /\ UNCHANGED <<now, tokenFile, currentToken>>

\* the timer of createTimeout fires; it was set after the server's timer with
\* the same delay, so it fires after it
RaceTimeout(a) ==
    /\ attempts[a].raceTimer = "pending"
    /\ attempts[a].srvTimer = "fired"
    /\ now >= Deadline(attempts[a])
    /\ LET att == attempts[a]
           att1 == [att EXCEPT !.raceTimer = "fired",
                               !.race = Settle(@, Rejected(MsgRaceTimeout))]
       IN  AfterEvent(a, att1)
    /\ UNCHANGED <<now, tokenFile, currentToken>>

\* Variant of SaveToken that swallows the error of the write and returns the
\* access token all the same
SaveToken_Swallow(a, res) ==
    /\ attempts[a].phase = "save"
    /\ LET att == attempts[a]
           tokenData == att.race.v
       IN  IF res = "written"
           THEN /\ tokenFile' = FileJson(tokenData)
                /\ currentToken' = tokenData
                /\ AuthorizeSettles(a, [att EXCEPT !.saved = TRUE],
                                    Resolved(tokenData.accessToken))
           ELSE /\ AuthorizeSettles(a, att, Resolved(tokenData.accessToken))
                /\ UNCHANGED <<tokenFile, currentToken>>
    /\ UNCHANGED now

\* saveToken(tokenData) of authorize(): writes the file and returns the
\* access token, or throws
SaveToken(a, res) ==
    /\ attempts[a].phase = "save"
    /\ LET att == attempts[a]
           tokenData == att.race.v
       IN  IF res = "written"
           THEN /\ tokenFile' = FileJson(tokenData)
                /\ currentToken' = tokenData
                /\ AuthorizeSettles(a, [att EXCEPT !.saved = TRUE],
                                    Resolved(tokenData.accessToken))
           ELSE /\ AuthorizeSettles(a, att, Rejected(MsgSaveFailed))
                /\ UNCHANGED <<tokenFile, currentToken>>
    /\ UNCHANGED now

\* the tool method of the first try (op1) or of the retry (op2) runs, the
\* backend answering reply to its POST
Operate(c, reply) ==
    /\ calls[c].pc \in {"op1", "op2"}
    /\ LET call == calls[c]
           out == Route(call.name, call.args, reply)
           call1 == IF out.invoked
                    THEN [call EXCEPT !.ops = Append(@, [token |-> TokenFor(call),
                                                         out |-> out])]
                    ELSE call
           k == HandlerAfterTool(call1, out, Len(attempts) + 1)
       IN  /\ calls' = [calls EXCEPT ![c] = k.call]
           /\ attempts' = IF k.reauth
                          THEN Append(attempts, AuthorizeStart(c, Len(attempts) + 1))
                          ELSE attempts
    /\ UNCHANGED <<now, tokenFile, currentToken>>

\* time passes
Tick ==
    /\ \E a \in 1..Len(attempts) :
            attempts[a].raceTimer = "pending" /\ now < Deadline(attempts[a])
    /\ now' = now + 1
    /\ UNCHANGED <<tokenFile, currentToken, attempts, calls>>

Next ==
    \/ \E c \in Slots, req \in ToolRequests : StartCall(c, req)
    \/ \E a \in 1..Len(attempts) : Listen(a)
    \/ \E a \in 1..Len(attempts) : \E q \in RequestsTo(attempts[a]) : Request(a, q)
    \/ \E a \in 1..Len(attempts) : ServerTimeout(a)
    \/ \E a \in 1..Len(attempts) : RaceTimeout(a)
    \/ \E a \in 1..Len(attempts), res \in SaveOutcomes : SaveToken(a, res)
    \/ \E c \in Slots, reply \in BackendReplies : Operate(c, reply)
    \/ Tick

Spec == Init /\ [][Next]_vars

----------------------------------------------------------------------------
(* The request handler alone: one authorize() run, called by
   ensureAuthenticated() without a token file, is listening and handles one
   request, whose five parameters are each absent, empty or a value *)

AllCallbacks ==
    [error : {Null, Empty, <<"access_denied">>},
     access_token : {Null, Empty} \cup AccessTokens,
     state : {Null, Empty} \cup StateTokens,
     refresh_token : {Null, Empty, <<"refR">>},
     user_id : {Null, Empty, <<"u1">>}]

InitCallback ==
    /\ now = Start
    /\ tokenFile = FileAbsent
    /\ currentToken = NoToken
    /\ attempts = << [AuthorizeStart(1, 1) EXCEPT
                        !.phase = "wait", !.server = "listening",
                        !.listenAt = Start, !.srvTimer = "pending",
                        !.raceTimer = "pending"] >>
    /\ calls = [c \in Slots |->
                  [IdleCall EXCEPT !.name = <<"list_websites">>,
                                   !.loadedAt = Start, !.pc = "ensureAuth",
                                   !.auths = <<1>>]]

NextCallback ==
    \/ \E q \in AllCallbacks : attempts[1].promise = Pending /\ Request(1, q)
    \/ Tick

SpecCallback == InitCallback /\ [][NextCallback]_vars

(* The token file holds JSON that is not a TokenData record: loadToken()
   returns JSON.parse(content) as it is *)

\* {"clientId": ...}; a record without expiresAt; a record without
\* accessToken, fresh and past its expiry
ShapelessFiles ==
    { FileJson([clientId |-> ClientId]),
      FileJson([accessToken |-> <<"tokA">>, refreshToken |-> <<"refA">>,
                scopes |-> Scopes, userId |-> <<"u0">>, clientId |-> ClientId]),
      FileJson([refreshToken |-> <<"refA">>, expiresAt |-> Start + TokenLifetime,
                scopes |-> Scopes, userId |-> <<"u0">>, clientId |-> ClientId]),
      FileJson([refreshToken |-> <<"refA">>, expiresAt |-> Start,
                scopes |-> Scopes, userId |-> <<"u0">>, clientId |-> ClientId]) }

InitShape ==
    /\ now = Start
    /\ tokenFile \in ShapelessFiles
    /\ currentToken = NoToken
    /\ attempts = << >>
    /\ calls = [c \in Slots |-> IdleCall]

SpecShape == InitShape /\ [][Next]_vars

(* The process serves one request after the other: the handler is called
   again when it has answered *)

\* the requests handled after the first, and the logins they may start
MaxAttempts == 3

NextRequest(c) ==
    /\ calls[c].pc = "done"
    /\ Len(attempts) < MaxAttempts
    /\ calls' = [calls EXCEPT ![c] = IdleCall]
    /\ UNCHANGED <<now, tokenFile, currentToken, attempts>>

InitSession ==
    /\ now = Start
    /\ tokenFile = FileAbsent
    /\ currentToken = NoToken
    /\ attempts = << >>
    /\ calls = [c \in Slots |-> IdleCall]

\* the requests of a session: list_websites, and callbacks that hand over a
\* token with the state of an odd or of an even login, or refuse
SessionRequest == [name |-> <<"list_websites">>, args |-> NoArgs]
SessionCallbacks ==
    { Callback(Null, <<"tokA">>, <<"s1">>), Callback(Null, <<"tokB">>, <<"s2">>),
      Callback(<<"access_denied">>, Null, Null) }

NextSession ==
    \/ \E c \in Slots : StartCall(c, SessionRequest)
    \/ \E a \in 1..Len(attempts) : Listen(a)
    \/ \E a \in 1..Len(attempts) : \E q \in SessionCallbacks :
            attempts[a].promise = Pending /\ Request(a, q)
    \/ \E a \in 1..Len(attempts) : ServerTimeout(a)
    \/ \E a \in 1..Len(attempts) : RaceTimeout(a)
    \/ \E a \in 1..Len(attempts), res \in SaveOutcomes : SaveToken(a, res)
    \/ \E c \in Slots, reply \in BackendReplies : Operate(c, reply)
    \/ Tick
    \/ \E c \in Slots : NextRequest(c)

SpecSession == InitSession /\ [][NextSession]_vars

(* The command-line tool: each command is a process of its own that works on
   the same token file and ends with process.exit *)

\* the commands that call ensureAuthenticated() and then the backend
RemoteCommands == {"list", "deploy", "delete", "test"}

\* argv of the commands the model runs: deploy <path>, delete <websiteId>
CliInvocations ==
    { [cmd |-> "list", args |-> NoArgs],
      [cmd |-> "test", args |-> NoArgs],
      [cmd |-> "delete", args |-> [NoArgs EXCEPT !.websiteId = <<"W1">>]],
      [cmd |-> "deploy",
       args |-> [NoArgs EXCEPT !.zipFile = PathInput(<<".", "/", "s", "i", "t", "e">>,
                                               TRUE, TRUE, 1024)]],
      [cmd |-> "deploy",
       args |-> [NoArgs EXCEPT !.zipFile = PathInput(<<".", "/", "g", "o", "n", "e">>,
                                               FALSE, FALSE, 0)]] }

MsgStat(path) == <<"ENOENT: no such file or directory, stat '">> \o path \o <<"'">>

\* the operation of a remote command: list and test call listWebsites, delete
\* calls deleteWebsite, deploy calls fs.stat(path) and then deployWebsite
CliRoute(cmd, args, reply) ==
    CASE cmd = "delete" ->
            callFunction(reply, <<"deleted ">> \o args.websiteId \o <<": ">>)
      [] cmd = "deploy" ->
            IF ~args.zipFile.exists THEN Threw(MsgStat(args.zipFile.text), 0, "none")
            ELSE deployWebsite(args.zipFile, reply)
      [] OTHER -> callFunction(reply, <<"websites: ">>)

\* Variant of Exists that takes only a file with a record for a file
Exists_Json(file) == file.kind = "json"

\* existsSync(tokenPath), and what fs.unlink(tokenPath) does
Exists(file) == file.kind # "absent"
UnlinkOutcomes == {"ok", "EACCES"}

\* the time the commands of a session may take altogether
MaxElapsed == 2

\* demox-mcp login
CliLogin(c) ==
    /\ calls[c].pc = "idle"
    /\ calls' = [calls EXCEPT ![c] =
           [@ EXCEPT !.cmd = "login", !.pc = "login",
                     !.auths = <<Len(attempts) + 1>>]]
    /\ attempts' = Append(attempts, AuthorizeStart(c, Len(attempts) + 1))
    /\ UNCHANGED <<now, tokenFile, currentToken>>

\* demox-mcp list | deploy | delete | test, up to the return of
\* ensureAuthenticated()
CliRemote(c, inv) ==
    /\ calls[c].pc = "idle"
    /\ ensureAuthenticated(c, [calls[c] EXCEPT !.cmd = inv.cmd, !.args = inv.args])
    /\ UNCHANGED <<now, tokenFile>>

\* the operation of a remote command returns or throws: exit 0 or 1
CliOperate(c, reply) ==
    /\ calls[c].pc = "op1"
    /\ calls[c].cmd \in RemoteCommands
    /\ LET call == calls[c]
           out == CliRoute(call.cmd, call.args, reply)
           call1 == [call EXCEPT !.ops = Append(@, [token |-> call.accessToken,
                                                    out |-> out])]
       IN  calls' = [calls EXCEPT ![c] =
               IF out.ok THEN CliExit(call1, 0)
               ELSE CliExit([call1 EXCEPT !.caught = [msg |-> out.msg,
                                                      from |-> "tool"]], 1)]
    /\ UNCHANGED <<now, tokenFile, currentToken, attempts>>

\* demox-mcp logout
CliLogout(c, res) ==
    /\ calls[c].pc = "idle"
    /\ LET call == [calls[c] EXCEPT !.cmd = "logout"]
       IN  IF ~Exists(tokenFile)
           THEN /\ calls' = [calls EXCEPT ![c] =
                       CliExit([call EXCEPT !.unlink = "skipped"], 0)]
                /\ UNCHANGED tokenFile
           ELSE IF res = "ok"
           THEN /\ calls' = [calls EXCEPT ![c] =
                       CliExit([call EXCEPT !.unlink = "ok"], 0)]
                /\ tokenFile' = FileAbsent
           ELSE /\ calls' = [calls EXCEPT ![c] =
                       CliExit([call EXCEPT !.unlink = "failed"], 1)]
                /\ UNCHANGED tokenFile
    /\ UNCHANGED <<now, currentToken, attempts>>

\* demox-mcp clean
CliClean(c, res) ==
    /\ calls[c].pc = "idle"
    /\ LET call == [calls[c] EXCEPT !.cmd = "clean"]
       IN  IF ~Exists(tokenFile)
           THEN /\ calls' = [calls EXCEPT ![c] =
                       CliExit([call EXCEPT !.unlink = "skipped"], 0)]
                /\ UNCHANGED tokenFile
           ELSE IF res = "ok"
           THEN /\ calls' = [calls EXCEPT ![c] =
                       CliExit([call EXCEPT !.unlink = "ok"], 0)]
                /\ tokenFile' = FileAbsent
           ELSE /\ calls' = [calls EXCEPT ![c] =
                       CliExit([call EXCEPT !.unlink = "failed"], 0)]
                /\ UNCHANGED tokenFile
    /\ UNCHANGED <<now, currentToken, attempts>>

MsgUnlink == <<"EACCES: permission denied, unlink">>

\* OAuthManager.revokeToken(), called by a program that embeds the manager:
\* it returns or throws, the process goes on
RevokeToken(c, res) ==
    /\ calls[c].pc = "idle"
    /\ LET call == [calls[c] EXCEPT !.cmd = "revokeToken", !.pc = "done"]
       IN  IF ~Exists(tokenFile)
           THEN /\ calls' = [calls EXCEPT ![c] = [call EXCEPT !.unlink = "skipped"]]
                /\ currentToken' = NoToken
                /\ UNCHANGED tokenFile
           ELSE IF res = "ok"
           THEN /\ calls' = [calls EXCEPT ![c] = [call EXCEPT !.unlink = "ok"]]
                /\ currentToken' = NoToken
                /\ tokenFile' = FileAbsent
           ELSE /\ calls' = [calls EXCEPT ![c] =
                       [call EXCEPT !.unlink = "failed",
                                    !.caught = [msg |-> MsgUnlink,
                                                from |-> "revokeToken"]]]
                /\ UNCHANGED <<tokenFile, currentToken>>
    /\ UNCHANGED <<now, attempts>>

MsgStatus == <<"cannot read the token file">>
MsgConfig == <<"EACCES: permission denied, open">>

\* demox-mcp status: exit 0 without a file; else it reads and parses the file
\* and prints the record, tokenData.scopes.join throwing when there is none
CliStatus(c) ==
    /\ calls[c].pc = "idle"
    /\ LET call == [calls[c] EXCEPT !.cmd = "status"]
           readable == tokenFile.kind = "json"
                       /\ Has(JSONparse(tokenFile.text), "scopes")
       IN  calls' = [calls EXCEPT ![c] =
               IF ~Exists(tokenFile) \/ readable THEN CliExit(call, 0)
               ELSE CliExit([call EXCEPT !.caught = [msg |-> MsgStatus,
                                                     from |-> "status"]], 1)]
    /\ UNCHANGED <<now, tokenFile, currentToken, attempts>>

\* demox-mcp config: fs.writeFile of the output file succeeds or throws
CliConfig(c, res) ==
    /\ calls[c].pc = "idle"
    /\ calls' = [calls EXCEPT ![c] =
           IF res = "written" THEN CliExit([@ EXCEPT !.cmd = "config"], 0)
           ELSE CliExit([@ EXCEPT !.cmd = "config",
                                  !.caught = [msg |-> MsgConfig, from |-> "config"]], 1)]
    /\ UNCHANGED <<now, tokenFile, currentToken, attempts>>

\* the next command is run: a new process, unless the last was a call of
\* revokeToken(), which had returned to its program
NextCommand(c) ==
    /\ calls[c].pc = "done"
    /\ now < Start + MaxElapsed
    /\ calls' = [calls EXCEPT ![c] =
           [IdleCall EXCEPT !.prev = [cmd |-> calls[c].cmd, exit |-> calls[c].exit,
                                      unlink |-> calls[c].unlink]]]
    /\ attempts' = << >>
    /\ currentToken' = IF calls[c].exit = NotExited THEN currentToken ELSE NoToken
    /\ UNCHANGED <<now, tokenFile>>

InitCli ==
    /\ now = Start
    /\ tokenFile \in InitialFiles \cup {FileJson([clientId |-> ClientId])}
    /\ currentToken = NoToken
    /\ attempts = << >>
    /\ calls = [c \in Slots |-> IdleCall]

NextCli ==
    \/ \E c \in Slots : CliLogin(c)
    \/ \E c \in Slots, inv \in CliInvocations : CliRemote(c, inv)
    \/ \E c \in Slots, reply \in BackendReplies : CliOperate(c, reply)
    \/ \E c \in Slots, res \in UnlinkOutcomes : CliLogout(c, res)
    \/ \E c \in Slots, res \in UnlinkOutcomes : CliClean(c, res)
    \/ \E c \in Slots, res \in UnlinkOutcomes : RevokeToken(c, res)
    \/ \E c \in Slots : CliStatus(c)
    \/ \E c \in Slots, res \in SaveOutcomes : CliConfig(c, res)
    \/ \E c \in Slots : NextCommand(c)
    \/ \E a \in 1..Len(attempts) : Listen(a)
    \/ \E a \in 1..Len(attempts) : \E q \in SessionCallbacks :
            attempts[a].promise = Pending /\ Request(a, q)
    \/ \E a \in 1..Len(attempts) : ServerTimeout(a)
    \/ \E a \in 1..Len(attempts) : RaceTimeout(a)
    \/ \E a \in 1..Len(attempts), res \in SaveOutcomes : SaveToken(a, res)
    \/ Tick

SpecCli == InitCli /\ [][NextCli]_vars

(* Deploy: the tool is called with a stored token that has not expired, for
   inputs of every kind *)

\* URLs, directories and files by several spellings, sizes at and over the
\* limit, and inline base64 content
DeployInputs ==
    { PathInput(<<"h", "t", "t", "p", "s", ":", "/", "/", "h", "/", "a", ".", "z", "i", "p">>,
                TRUE, FALSE, 1024),
      PathInput(<<"h", "t", "t", "p", "s", ":", "/", "/", "h", "/", "a">>,
                TRUE, FALSE, 1024),
      PathInput(<<"h", "t", "t", "p", ":", "/", "/", "h", "/", "a", ".", "z", "i", "p">>,
                TRUE, FALSE, 1024),
      PathInput(<<"h", "t", "t", "p", ":", "/", "/", "h", "/", "a">>,
                TRUE, FALSE, 1024),
      PathInput(<<"h", "t", "t", "p", "s", ":", "/", "/", "h", "/", "b", ".", "z", "i", "p">>,
                TRUE, FALSE, MaxFileSize + 1),
      PathInput(<<"d", "i", "s", "t">>,
                TRUE, TRUE, 1024),
      PathInput(<<"b", "u", "i", "l", "d">>,
                TRUE, TRUE, 1024),
      PathInput(<<".", "/", "d", "i", "s", "t">>,
                TRUE, TRUE, 1024),
      PathInput(<<".", "/", "b", "i", "g">>,
                TRUE, TRUE, MaxFileSize + 1),
      PathInput(<<"/", "s", ".", "z", "i", "p">>,
                TRUE, FALSE, MaxFileSize),
      PathInput(<<"/", "t", ".", "z", "i", "p">>,
                TRUE, FALSE, MaxFileSize + 1),
      PathInput(<<"/", "s", ".", "t", "x", "t">>,
                TRUE, FALSE, 1024),
      PathInput(<<"U", "E", "s", "D", "B", "A", "o", "A">>,
                FALSE, FALSE, 0),
      PathInput(<<"U", "E", "s", "=">>,
                FALSE, FALSE, 0) }
DeployRequests ==
    { [name |-> <<"deploy_website">>, args |-> [NoArgs EXCEPT !.zipFile = z]] :
        z \in DeployInputs }

InitDeploy ==
    /\ now = Start
    /\ tokenFile = FileJson(StoredToken(Start + TokenLifetime))
    /\ currentToken = NoToken
    /\ attempts = << >>
    /\ calls = [c \in Slots |-> IdleCall]

NextDeploy ==
    \/ \E c \in Slots, req \in DeployRequests : StartCall(c, req)
    \/ \E c \in Slots, reply \in BackendReplies : Operate(c, reply)
    \/ \E a \in 1..Len(attempts) : Listen(a)
    \/ \E a \in 1..Len(attempts) : \E q \in SessionCallbacks :
            attempts[a].promise = Pending /\ Request(a, q)
    \/ \E a \in 1..Len(attempts) : ServerTimeout(a)
    \/ \E a \in 1..Len(attempts) : RaceTimeout(a)
    \/ \E a \in 1..Len(attempts), res \in SaveOutcomes : SaveToken(a, res)
    \/ Tick

SpecDeploy == InitDeploy /\ [][NextDeploy]_vars

\* the event loop runs what is due: time passes, a spawned browser returns,
\* and a timer fires once its delay has elapsed; nothing makes a request arrive
Fairness ==
    /\ WF_vars(Tick)
    /\ WF_vars(\E a \in 1..Len(attempts) : Listen(a))
    /\ WF_vars(\E a \in 1..Len(attempts) : ServerTimeout(a))
    /\ WF_vars(\E a \in 1..Len(attempts) : RaceTimeout(a))

SpecLive == Spec /\ Fairness

----------------------------------------------------------------------------
(* Vocabulary of the properties *)

\* a handler run calls authorize() at most twice
AttemptIds == 1..(2 * Cardinality(Slots))

\* the stored record the run loaded was more than the margin before its expiry
StoreValid(call) ==
    /\ call.loaded # NoToken
    /\ Has(call.loaded, "expiresAt")
    /\ call.loaded.expiresAt - call.loadedAt > ExpiryMargin
StoreStale(call) ==
    /\ call.loaded # NoToken
    /\ Has(call.loaded, "expiresAt")
    /\ call.loaded.expiresAt - call.loadedAt <= ExpiryMargin

\* the first try invoked the tool method and it threw an auth-marker error
FirstTryAuthFailure(call) ==
    /\ call.caught # NoError
    /\ call.caught.from = "tool"
    /\ isAuthError(call.caught.msg)

\* authorize() calls of the run before its catch block: one by
\* ensureAuthenticated unless the stored record was used
AuthsBeforeCatch(call) == IF call.cached THEN 0 ELSE 1

\* the run has called authorize() in its catch block; Relogin is that attempt
HasRelogin(call) == Len(call.auths) > AuthsBeforeCatch(call)
Relogin(call) == attempts[call.auths[AuthsBeforeCatch(call) + 1]]

\* the attempts a run has started are all over
AllSettled(call) ==
    \A i \in 1..Len(call.auths) : attempts[call.auths[i]].phase = "done"

\* the first request an attempt handled carried access_token and another state
TokenWithOtherState(att) ==
    att.first # NoRequest /\ att.first.token /\ att.first.state = "other"

----------------------------------------------------------------------------
(* C1 *)

\* C1 as stated: every attempt whose callback carried access_token and a state
\* other than its own has failed with the state-mismatch error and has written
\* no credential.
C1_AsStated ==
    \A a \in 1..Len(attempts) :
        TokenWithOtherState(attempts[a])
        => /\ attempts[a].result = Rejected(MsgStateMismatch)
           /\ ~attempts[a].saved

C1_Inv ==
    \A a \in 1..Len(attempts) :
        (TokenWithOtherState(attempts[a]) /\ ~attempts[a].first.error)
        => /\ attempts[a].phase = "done"
           /\ attempts[a].race = Rejected(MsgStateMismatch)
           /\ attempts[a].result = Rejected(MsgStateMismatch)
           /\ ~attempts[a].saved

C1_Step ==
    \A a \in 1..Len(attempts) :
        (TokenWithOtherState(attempts'[a]) /\ ~attempts'[a].first.error)
        => \/ tokenFile' = tokenFile /\ currentToken' = currentToken
           \/ \E b \in 1..Len(attempts) :
                  b # a /\ attempts'[b].saved /\ ~attempts[b].saved

\* C1 (amended): an attempt whose callback carried no error parameter, an
\* access_token and a state other than the attempt's own fails with the
\* state-mismatch error; from then on, whatever requests or timers follow, the
\* attempt stays failed, and every change of the token file or of currentToken
\* is the save of another attempt.
C1_StateMismatch == []C1_Inv /\ [][C1_Step]_vars

\* a mismatched attempt that has since handled a further request
C1_Witness ==
    \E a \in 1..Len(attempts) :
        /\ TokenWithOtherState(attempts[a])
        /\ ~attempts[a].first.error
        /\ attempts[a].late > 0

----------------------------------------------------------------------------
(* C2, C3 *)

\* C2: when the stored record is within five minutes of its expiry (exactly
\* five minutes included) or past it, ensureAuthenticated() calls authorize()
\* and returns nothing before that call returns; what it returns is the result
\* of that authorize(), not a value served from the store.
C2_StaleTriggersAuthorize ==
    \A c \in Slots :
        LET call == calls[c] IN
        (call.pc # "idle" /\ StoreStale(call))
        => /\ ~call.cached
           /\ Len(call.auths) >= 1
           /\ attempts[call.auths[1]].owner = c
           /\ call.pc = "ensureAuth" => call.accessToken = Null
           /\ call.accessToken # Null
                 => /\ attempts[call.auths[1]].result = Resolved(call.accessToken)
                    /\ attempts[call.auths[1]].saved

\* ensureAuthenticated() has returned for a record exactly at the margin
C2_Witness ==
    \E c \in Slots :
        /\ calls[c].pc = "op1"
        /\ calls[c].loaded # NoToken
        /\ calls[c].loaded.expiresAt - calls[c].loadedAt = ExpiryMargin

\* C3: when the stored record is more than five minutes before its expiry,
\* ensureAuthenticated() returns the record's access token; when it returns no
\* authorize() has been called, no listener exists and the file is what was
\* loaded; the run calls authorize() only from its catch block.
C3_ValidUsesStored ==
    \A c \in Slots :
        LET call == calls[c] IN
        (call.pc # "idle" /\ StoreValid(call))
        => /\ call.cached
           /\ call.accessToken = call.loaded.accessToken
           /\ call.pc # "ensureAuth"
           /\ call.caught = NoError => Len(call.auths) = 0
           /\ call.caught # NoError => call.caught.from # "authorize"
           /\ call.pc = "op1"
                 => /\ attempts = << >>
                    /\ tokenFile = FileJson(call.loaded)
                    /\ currentToken = call.loaded

\* the record one tick more than the margin before its expiry was served
C3_Witness ==
    \E c \in Slots :
        /\ calls[c].pc = "op1"
        /\ calls[c].loaded # NoToken
        /\ calls[c].loaded.expiresAt - calls[c].loadedAt = ExpiryMargin + 1

----------------------------------------------------------------------------
(* C4 *)

\* the first try failed with an auth-marker error and the retry succeeded
RetrySucceeded(call) ==
    /\ call.pc = "done"
    /\ FirstTryAuthFailure(call)
    /\ Len(call.ops) = 2
    /\ call.ops[2].out.ok

\* C4 as stated: when the tool fails once with an auth-marker error and
\* succeeds on the retry, the response is the retry's result and the run has
\* called authorize() exactly once, whatever the store held at its start.
C4_AsStated ==
    \A c \in Slots :
        RetrySucceeded(calls[c])
        => /\ calls[c].resp = RespOk(calls[c].ops[2].out.text)
           /\ Len(calls[c].auths) = 1

\* C4 (amended): when the tool fails once with an auth-marker error and
\* succeeds on the retry, the response is the retry's result and the run has
\* called authorize() exactly once after the failure: once in all when it
\* started with a valid stored record, twice in all (ensureAuthenticated's
\* login, then the re-login) when the store was absent, unreadable or stale.
C4_RetryValue ==
    \A c \in Slots :
        LET call == calls[c] IN
        RetrySucceeded(call)
        => /\ call.resp = RespOk(call.ops[2].out.text)
           /\ ~call.resp.isError
           /\ Len(call.auths) = AuthsBeforeCatch(call) + 1
           /\ Len(call.auths) = IF StoreValid(call) THEN 1 ELSE 2
           /\ Cardinality({a \in 1..Len(attempts) : attempts[a].owner = c})
                 = Len(call.auths)

\* the retry succeeded in a run that started without a token file
C4_Witness ==
    \E c \in Slots :
        /\ RetrySucceeded(calls[c])
        /\ calls[c].loaded = NoToken
        /\ Len(calls[c].auths) = 2

----------------------------------------------------------------------------
(* C5 *)

\* the first try failed and not for authentication: the switch rejected the
\* tool name, the tool method threw before any POST, or the backend answered
\* with a status other than 401
FirstTryOtherFailure(call) ==
    /\ call.caught # NoError
    /\ \/ call.caught.from = "switch"
       \/ call.caught.from = "tool" /\ call.ops[1].out.status # "401"

\* C5: when the first try fails with an error that is not an authentication
\* failure, local validation errors that quote the caller's input included,
\* the run ends with that error as its response and calls authorize() no more.
C5_OtherErrorReturned ==
    \A c \in Slots :
        LET call == calls[c] IN
        FirstTryOtherFailure(call)
        => /\ call.pc = "done"
           /\ call.resp = RespError(call.caught.msg)
           /\ Len(call.auths) = AuthsBeforeCatch(call)

\* a validation error that quotes the caller's path was caught
C5_Witness ==
    \E c \in Slots :
        /\ calls[c].caught # NoError
        /\ calls[c].caught.from = "tool"
        /\ calls[c].ops[1].out.posts = 0
        /\ calls[c].caught.msg = MsgPathMissing(calls[c].args.zipFile.text)

----------------------------------------------------------------------------
(* C6 *)

\* C6: a run invokes the tool method at most twice; it invokes it a second
\* time only after the first invocation threw an auth-marker error and the
\* authorize() of the catch block returned; when the second invocation fails
\* the run is over, with no authorize() running and none called after the
\* re-login.
C6_AtMostOneRetry ==
    \A c \in Slots :
        LET call == calls[c] IN
        /\ Len(call.ops) <= 2
        /\ Len(call.ops) = 2
              => /\ ~call.ops[1].out.ok
                 /\ isAuthError(call.ops[1].out.msg)
                 /\ FirstTryAuthFailure(call)
                 /\ HasRelogin(call)
                 /\ Relogin(call).result = Resolved(call.newAccessToken)
                 /\ call.pc = "done"
        /\ (Len(call.ops) = 2 /\ ~call.ops[2].out.ok)
              => /\ call.pc = "done"
                 /\ AllSettled(call)
                 /\ Len(call.auths) = AuthsBeforeCatch(call) + 1

\* the second invocation failed with an auth-marker error
C6_Witness ==
    \E c \in Slots :
        /\ Len(calls[c].ops) = 2
        /\ ~calls[c].ops[2].out.ok
        /\ isAuthError(calls[c].ops[2].out.msg)

----------------------------------------------------------------------------
(* C7 *)

\* the re-login returned a token and the tool method of the retry threw
RetryFailed(call) ==
    /\ call.pc = "done"
    /\ HasRelogin(call)
    /\ Relogin(call).result.t = "ok"
    /\ Len(call.ops) >= 1
    /\ ~call.ops[Len(call.ops)].out.ok

\* C7: when the re-login succeeds and the retried tool fails, the response is
\* the error response of that failure, as the handler answers any failed tool,
\* and not the report of a failed login.
C7_RetryFailureUnchanged ==
    \A c \in Slots :
        LET call == calls[c] IN
        RetryFailed(call)
        => /\ call.resp = RespError(call.ops[Len(call.ops)].out.msg)
           /\ ~Includes(call.resp.text, "demox-mcp login")

\* the retry failed with an error of the backend that is not about the token
C7_Witness ==
    \E c \in Slots :
        /\ RetryFailed(calls[c])
        /\ calls[c].ops[Len(calls[c].ops)].out.status = "200"

----------------------------------------------------------------------------
(* C8 *)

\* C8: when the authorize() of the catch block throws (denied, state mismatch,
\* missing parameters, timeout, failed save), the run is over: the tool method
\* has not been invoked after the first try, the re-login is the last
\* authorize() of the run and none is running, and the response is an error
\* that quotes the failure and tells to run "demox-mcp login".
C8_ReloginFailureEnds ==
    \A c \in Slots :
        LET call == calls[c] IN
        (HasRelogin(call) /\ Relogin(call).result.t = "err")
        => /\ call.pc = "done"
           /\ call.resp = RespAutoLoginFailed(Relogin(call).result.msg)
           /\ call.resp.isError
           /\ Includes(call.resp.text, "demox-mcp login")
           /\ Len(call.ops) = IF call.caught.from = "tool" THEN 1 ELSE 0
           /\ call.newAccessToken = Null
           /\ Len(call.auths) = AuthsBeforeCatch(call) + 1
           /\ AllSettled(call)

\* the re-login after a failed tool timed out: its message carries a marker
C8_Witness ==
    \E c \in Slots :
        /\ HasRelogin(calls[c])
        /\ calls[c].caught.from = "tool"
        /\ Relogin(calls[c]).result = Rejected(MsgLoginTimeout)
        /\ isAuthError(MsgLoginTimeout)

----------------------------------------------------------------------------
(* C9 *)

\* C9 as stated: after an auth-marker failure of the first invocation the run
\* calls authorize(), also when the stored record was valid, and the retry is
\* invoked with the token that authorize() returned and never with the token
\* of the failed invocation.
C9_AsStated ==
    \A c \in Slots :
        LET call == calls[c] IN
        FirstTryAuthFailure(call)
        => /\ HasRelogin(call)
           /\ Len(call.ops) = 2
                 => /\ Relogin(call).result = Resolved(call.ops[2].token)
                    /\ call.ops[2].token # call.ops[1].token

\* C9 (amended): after an auth-marker failure of the first invocation the run
\* calls authorize() in the same step, also when the stored record was valid,
\* and the retry is invoked with the token that authorize() returned; that
\* token differs from the one of the failed invocation unless the callback of
\* the re-login delivered the same access_token again.
C9_RetryUsesNewToken ==
    \A c \in Slots :
        LET call == calls[c] IN
        FirstTryAuthFailure(call)
        => /\ HasRelogin(call)
           /\ Len(call.auths) = AuthsBeforeCatch(call) + 1
           /\ Relogin(call).owner = c
           /\ Len(call.ops) = 2
                 => /\ Relogin(call).result = Resolved(call.ops[2].token)
                    /\ Relogin(call).saved
                    /\ Relogin(call).race.v.accessToken = call.ops[2].token
                    /\ call.ops[2].token # call.ops[1].token
                          \/ Relogin(call).race.v.accessToken = call.ops[1].token

\* a valid stored token failed and the retry ran with another token
C9_Witness ==
    \E c \in Slots :
        /\ FirstTryAuthFailure(calls[c])
        /\ StoreValid(calls[c])
        /\ Len(calls[c].ops) = 2
        /\ calls[c].ops[2].token # calls[c].ops[1].token

----------------------------------------------------------------------------
(* C10 *)

\* no request has reached the listener of attempt a, which is waiting
WaitingUnanswered(a) ==
    /\ a <= Len(attempts)
    /\ attempts[a].phase = "wait"
    /\ attempts[a].first = NoRequest

Answered(a) ==
    /\ a <= Len(attempts)
    /\ attempts[a].first # NoRequest

TimedOut(a) ==
    /\ a <= Len(attempts)
    /\ attempts[a].result = Rejected(MsgLoginTimeout)

C10_Inv ==
    \A a \in 1..Len(attempts) :
        LET att == attempts[a] IN
        /\ att.result = Rejected(MsgLoginTimeout)
              => /\ now >= att.listenAt + LoginTimeout
                 /\ att.server = "closed"
                 /\ att.first = NoRequest
        /\ (att.phase = "done" /\ att.first = NoRequest)
              => att.result = Rejected(MsgLoginTimeout)
        /\ (att.phase = "wait" /\ att.first = NoRequest
            /\ now < att.listenAt + LoginTimeout)
              => att.result = Pending /\ att.server = "listening"

\* C10: an attempt whose listener receives no request rejects in the end with
\* the login-timeout error; it does not reject before 300000 ms have passed
\* since the listener was started, and when it rejects the listener is closed.
C10_Timeout ==
    /\ []C10_Inv
    /\ \A a \in AttemptIds :
          WaitingUnanswered(a) ~> (TimedOut(a) \/ Answered(a))

\* an attempt has rejected with the login timeout, no request having come
C10_Witness ==
    \E a \in 1..Len(attempts) :
        /\ attempts[a].result = Rejected(MsgLoginTimeout)
        /\ attempts[a].first = NoRequest
        /\ attempts[a].server = "closed"
        /\ now = attempts[a].listenAt + LoginTimeout

----------------------------------------------------------------------------
(* C11, C12 *)

\* how an attempt that is over ended
ExitPath(att) ==
    CASE att.result.t = "ok" -> "success"
      [] att.result = Rejected(MsgSaveFailed) -> "save failed"
      [] att.result = Rejected(MsgLoginTimeout) -> "timeout"
      [] att.result = Rejected(MsgStateMismatch) -> "mismatch"
      [] att.result = Rejected(MsgMissingParams) -> "malformed"
      [] OTHER -> "error callback"

\* C11: whenever an authorize() call has returned or thrown, the listener it
\* opened is closed, on each exit: success, error callback, state mismatch,
\* malformed callback, timeout; and a listener, once closed, stays closed.
C11_ListenerClosed ==
    /\ [](\A a \in 1..Len(attempts) :
            attempts[a].result # Pending
            => /\ attempts[a].phase = "done"
               /\ attempts[a].server = "closed"
               /\ ExitPath(attempts[a]) \in
                     {"success", "save failed", "timeout", "mismatch",
                      "malformed", "error callback"})
    /\ [][\A a \in 1..Len(attempts) :
            attempts[a].server = "closed" => attempts'[a].server = "closed"]_vars

\* two attempts of one run are over, one by the timeout and one by a
\* malformed callback
C11_Witness ==
    \E a, b \in 1..Len(attempts) :
        /\ attempts[a].phase = "done" /\ ExitPath(attempts[a]) = "timeout"
        /\ attempts[b].phase = "done" /\ ExitPath(attempts[b]) = "malformed"
        /\ attempts[a].server = "closed" /\ attempts[b].server = "closed"

\* a callback settled the attempt before its deadline
SettledByCallback(att) ==
    att.promise # Pending /\ att.first # NoRequest

\* C12: once a callback has settled an attempt, its timers are cancelled: no
\* timer of the settled attempt is pending.
C12_TimerCancelled ==
    \A a \in 1..Len(attempts) :
        SettledByCallback(attempts[a])
        => /\ attempts[a].srvTimer # "pending"
           /\ attempts[a].raceTimer # "pending"

\* a timer of an attempt fired after a callback had settled the attempt
C12_Witness ==
    \E a \in 1..Len(attempts) :
        /\ SettledByCallback(attempts[a])
        /\ attempts[a].phase = "done"
        /\ attempts[a].srvTimer = "fired"
        /\ attempts[a].raceTimer = "fired"

----------------------------------------------------------------------------
(* C13, C14 *)

\* the first request of an attempt had no error parameter and lacked the
\* access_token or the state (absent or empty)
MalformedCallback(att) ==
    /\ att.first # NoRequest
    /\ ~att.first.error
    /\ ~att.first.token \/ att.first.state = "none"

\* C13: a callback without error parameter that lacks access_token or state
\* makes authorize() throw the missing-parameters error in the step that
\* handles it, before the deadline if it came before it; the attempt has
\* closed its listener and saves no credential, also when the request
\* carried an access_token.
C13_MissingParams ==
    \A a \in 1..Len(attempts) :
        MalformedCallback(attempts[a])
        => /\ attempts[a].phase = "done"
           /\ attempts[a].race = Rejected(MsgMissingParams)
           /\ attempts[a].result = Rejected(MsgMissingParams)
           /\ attempts[a].server = "closed"
           /\ ~attempts[a].saved

\* an access_token without state has ended an attempt before its deadline
C13_Witness ==
    \E a \in 1..Len(attempts) :
        /\ MalformedCallback(attempts[a])
        /\ attempts[a].first.token
        /\ attempts[a].phase = "done"
        /\ now < attempts[a].listenAt + LoginTimeout

\* the result of an attempt is the authorization failure of some error text
Denied(att) ==
    \E q \in CallbackParams :
        Truthy(q.error) /\ att.result = Rejected(MsgDenied(q.error))

\* C14: a callback with a non-empty error parameter makes authorize() throw
\* the authorization failure that quotes it, and the attempt saves no
\* credential, also when the request carried an access_token and the state
\* of the attempt.
C14_ErrorFirst ==
    \A a \in 1..Len(attempts) :
        (attempts[a].first # NoRequest /\ attempts[a].first.error)
        => /\ attempts[a].phase = "done"
           /\ Denied(attempts[a])
           /\ attempts[a].race = attempts[a].result
           /\ ~attempts[a].saved

\* an error callback that also carried a token and the right state
C14_Witness ==
    \E a \in 1..Len(attempts) :
        /\ attempts[a].first # NoRequest
        /\ attempts[a].first.error
        /\ attempts[a].first.token
        /\ attempts[a].first.state = "same"
        /\ attempts[a].phase = "done"

----------------------------------------------------------------------------
(* C15 *)

\* the record the listener of an attempt resolved with is built from the
\* request q it handled
BuiltFrom(v, q) ==
    /\ DOMAIN v = {"accessToken", "refreshToken", "expiresAt", "scopes",
                   "userId", "clientId"}
    /\ v.accessToken = q.access_token
    /\ v.refreshToken = IF q.refresh_token \in {Null, Empty}
                        THEN q.access_token ELSE q.refresh_token
    /\ v.scopes = <<"website:deploy", "website:list", "website:delete",
                    "website:update">>
    /\ v.userId = IF q.user_id = Null THEN Empty ELSE q.user_id
    /\ v.clientId = <<"demox-mcp-client">>

C15_Inv ==
    \A a \in 1..Len(attempts) :
        attempts[a].promise.t = "ok"
        => /\ attempts[a].first.q.state = attempts[a].state
           /\ BuiltFrom(attempts[a].promise.v, attempts[a].first.q)

C15_Step ==
    \A a \in 1..Len(attempts) :
        (attempts[a].promise = Pending /\ attempts'[a].promise.t = "ok")
        => attempts'[a].promise.v.expiresAt = now + 30 * Day

\* C15: the record made from a callback with the state of the attempt, handled
\* at time t, has the access_token of the callback, its refresh_token when
\* that is a non-empty value and else the access_token, expiresAt = t + 30
\* days, the four fixed scopes, the user_id of the callback or the empty
\* string, and the client id; it has no other field.
C15_Record == []C15_Inv /\ [][C15_Step]_vars

\* a record made one tick after the listener started, from a callback with an
\* empty refresh_token and a user_id
C15_Witness ==
    /\ Len(attempts) >= 1
    /\ attempts[1].promise.t = "ok"
    /\ attempts[1].first.q.refresh_token = Empty
    /\ attempts[1].first.q.user_id = <<"u1">>
    /\ attempts[1].promise.v.expiresAt = attempts[1].listenAt + 1 + TokenLifetime

----------------------------------------------------------------------------
(* C16 *)

C16_Inv ==
    \A a \in 1..Len(attempts) :
        LET att == attempts[a] IN
        /\ att.result.t = "ok"
              => /\ att.saved
                 /\ att.race.t = "ok"
                 /\ att.race.v.accessToken = att.result.v
        /\ att.result = Rejected(MsgSaveFailed)
              => /\ att.promise.t = "ok"
                 /\ att.server = "closed"
                 /\ ~att.saved
                 /\ att.phase = "done"
                 /\ calls[att.owner].newAccessToken = Null
                 /\ calls[att.owner].pc \in {"ensureAuth", "reauth", "done"}

C16_Step ==
    \A a \in 1..Len(attempts) :
        /\ (attempts[a].result = Pending /\ attempts'[a].result.t = "ok")
              => /\ tokenFile'.kind = "json"
                 /\ loadToken(tokenFile').accessToken = attempts'[a].result.v
                 /\ loadToken(tokenFile') = attempts'[a].race.v
                 /\ currentToken' = loadToken(tokenFile')
        /\ (attempts[a].result = Pending
            /\ attempts'[a].result = Rejected(MsgSaveFailed))
              => tokenFile' = tokenFile /\ currentToken' = currentToken

\* C16: in the step in which authorize() returns a token T the token file
\* holds the record of the accepted callback, whose access token is T, and
\* so does currentToken; when the write fails authorize() throws and hands no
\* token to its caller, the callback having been accepted and the listener
\* closed, and the file is as it was.
C16_SavedBeforeReturn == []C16_Inv /\ [][C16_Step]_vars

\* a re-login whose callback was accepted and whose write failed
C16_Witness ==
    \E c \in Slots :
        /\ HasRelogin(calls[c])
        /\ Relogin(calls[c]).result = Rejected(MsgSaveFailed)
        /\ Relogin(calls[c]).promise.t = "ok"
        /\ tokenFile.kind = "json"

----------------------------------------------------------------------------
(* C17, C18 *)

\* the run of slot c has loaded the token file, which is still what it was:
\* only the save of a login changes it
LoadedFrom(c, kind) == calls[c].pc # "idle" /\ tokenFile.kind = kind

\* C17: when there is no token file, loadToken() gives null and throws
\* nothing: the run goes on to call authorize() in ensureAuthenticated(), and
\* until that call is over it has caught no error and answered nothing.
C17_AbsentLeadsToAuthorize ==
    \A c \in Slots :
        LET call == calls[c] IN
        LoadedFrom(c, "absent")
        => /\ call.loaded = NoToken
           /\ ~call.cached
           /\ Len(call.auths) >= 1
           /\ call.auths[1] <= Len(attempts)
           /\ attempts[call.auths[1]].owner = c
           /\ call.pc = "ensureAuth"
                 => /\ call.caught = NoError
                    /\ call.resp = NoResp
                    /\ attempts[call.auths[1]].result = Pending
           /\ call.caught # NoError
                 => attempts[call.auths[1]].result # Pending

\* the listener of the login started for a missing file is up
C17_Witness ==
    \E c \in Slots :
        /\ LoadedFrom(c, "absent")
        /\ calls[c].pc = "ensureAuth"
        /\ attempts[calls[c].auths[1]].server = "listening"

\* C18: when the token file exists and cannot be read or cannot be parsed,
\* the load ends with an error that differs from the result for a missing
\* file, and ensureAuthenticated() does not go on as if there were no file.
C18_LoadErrors ==
    \A c \in Slots :
        (LoadedFrom(c, "unreadable") \/ LoadedFrom(c, "garbage"))
        => /\ calls[c].loaded # loadToken(FileAbsent)
           /\ Len(calls[c].auths) = 0

\* the login started for an unparsable file has its callback and is about to
\* overwrite the file
C18_Witness ==
    \E c \in Slots :
        /\ LoadedFrom(c, "garbage")
        /\ calls[c].loaded = NoToken
        /\ Len(calls[c].auths) >= 1
        /\ attempts[calls[c].auths[1]].phase = "save"

----------------------------------------------------------------------------
(* C19 *)

\* the record has the two fields ensureAuthenticated() reads
HasShape(tokenData) == Has(tokenData, "accessToken") /\ Has(tokenData, "expiresAt")

\* C19: when the token file parses to an object that lacks expiresAt or
\* accessToken, ensureAuthenticated() does not return a credential from it:
\* the run calls authorize() (or ends with an error) and passes no token of
\* that object to a tool method.
C19_ShapeChecked ==
    \A c \in Slots :
        LET call == calls[c] IN
        (call.pc # "idle" /\ call.loaded # NoToken /\ ~HasShape(call.loaded))
        => /\ ~call.cached
           /\ Len(call.auths) >= 1
           /\ \A i \in 1..Len(call.ops) :
                  call.ops[i].token # Get(call.loaded, "accessToken")

\* a tool method was called with the accessToken of an object without
\* expiresAt, or with undefined from an object without accessToken, no
\* authorize() before it
C19_Witness ==
    \E c \in Slots :
        LET call == calls[c] IN
        /\ call.pc # "idle"
        /\ call.loaded # NoToken
        /\ ~HasShape(call.loaded)
        /\ call.cached
        /\ Len(call.auths) = 0
        /\ Len(call.ops) = 1
        /\ call.ops[1].token = Undefined

----------------------------------------------------------------------------
(* C20 *)

\* the authorize() runs that have written their record
SavedRuns == { a \in 1..Len(attempts) : attempts[a].saved }
Latest(runs) == CHOOSE a \in runs : \A b \in runs : b <= a

\* the runs that had written before the handler run call began
EarlierSaved(call) ==
    { a \in SavedRuns : \A i \in 1..Len(call.auths) : a < call.auths[i] }

\* the file holds one object: no property name twice
OneRecord(file) ==
    file.kind = "json"
    => Cardinality({ file.text[i][1] : i \in 1..Len(file.text) }) = Len(file.text)

C20_Inv ==
    /\ OneRecord(tokenFile)
    /\ SavedRuns # {}
          => /\ tokenFile = FileJson(attempts[Latest(SavedRuns)].race.v)
             /\ loadToken(tokenFile) = attempts[Latest(SavedRuns)].race.v
    /\ \A c \in Slots :
          (calls[c].pc # "idle" /\ EarlierSaved(calls[c]) # {})
          => calls[c].loaded = attempts[Latest(EarlierSaved(calls[c]))].race.v

C20_Step ==
    /\ \A a \in 1..Len(attempts) :
          (~attempts[a].saved /\ attempts'[a].saved)
          => /\ a = Latest(SavedRuns \cup {a})
             /\ tokenFile' = FileJson(attempts[a].race.v)
             /\ loadToken(tokenFile') = attempts[a].race.v
    /\ (\A a \in 1..Len(attempts) : attempts'[a].saved = attempts[a].saved)
          => tokenFile' = tokenFile

\* C20: the store holds one record. Every successful authorize() run replaces
\* the file by its own record, so that after any number of them the file is
\* exactly the record of the most recent one, and a later load returns that
\* record.
C20_LastRecord == []C20_Inv /\ [][C20_Step]_vars

\* two runs have written different records, and the request after them has
\* loaded the second
C20_Witness ==
    \E c \in Slots :
        /\ calls[c].pc # "idle"
        /\ Cardinality(EarlierSaved(calls[c])) = 2
        /\ \E a \in EarlierSaved(calls[c]) : attempts[a].race.v # calls[c].loaded
        /\ calls[c].loaded = attempts[Latest(EarlierSaved(calls[c]))].race.v
        /\ calls[c].cached

----------------------------------------------------------------------------
(* C21 *)

\* the three ways to clear the credential
ClearCommands == {"revokeToken", "logout", "clean"}

\* the run has cleared: it is over and no deletion failed
Cleared(r) == r.cmd \in ClearCommands /\ r.unlink \in {"ok", "skipped"}

\* a clear that does not fail leaves no file; without a file it deletes
\* nothing, throws nothing and does not exit with 1
C21_Step ==
    \A c \in Slots :
        (calls[c].pc = "idle" /\ calls'[c].pc = "done"
         /\ calls'[c].cmd \in ClearCommands)
        => /\ tokenFile.kind = "absent"
                => /\ tokenFile' = tokenFile
                   /\ calls'[c].unlink = "skipped"
                   /\ calls'[c].caught = NoError
                   /\ calls'[c].exit # 1
           /\ (tokenFile.kind # "absent" /\ calls'[c].unlink # "failed")
                => /\ tokenFile' = FileAbsent
                   /\ calls'[c].unlink = "ok"
                   /\ calls'[c].caught = NoError
                   /\ calls'[c].exit # 1

\* after a clear, a second clear changes nothing and reports no error, and
\* ensureAuthenticated() has no token to return: it calls authorize()
C21_Inv ==
    \A c \in Slots :
        LET call == calls[c] IN
        (call.prev # NoPrev /\ Cleared(call.prev))
        => /\ call.pc = "idle" => tokenFile = FileAbsent /\ currentToken = NoToken
           /\ (call.pc = "done" /\ call.cmd \in ClearCommands)
                => /\ tokenFile = FileAbsent
                   /\ call.unlink = "skipped"
                   /\ call.caught = NoError
                   /\ call.exit # 1
           /\ (call.pc # "idle" /\ call.cmd \in RemoteCommands)
                => /\ call.loaded = NoToken
                   /\ ~call.cached
                   /\ Len(call.auths) = 1
                   /\ call.accessToken # Null
                         => attempts[call.auths[1]].result = Resolved(call.accessToken)

\* C21: revokeToken(), logout and clean delete the token file when there is
\* one and do nothing, without an error, when there is none, so that a second
\* clear equals the first; the ensureAuthenticated() that follows a clear
\* calls authorize() and returns no token held before.
C21_ClearIdempotent == []C21_Inv /\ [][C21_Step]_vars

\* the token file was deleted by a clear, and the command after it has logged
\* in again and runs with the token of that login
C21_Witness ==
    \E c \in Slots :
        /\ calls[c].prev # NoPrev
        /\ calls[c].prev.unlink = "ok"
        /\ calls[c].cmd \in RemoteCommands
        /\ calls[c].pc = "op1"
        /\ calls[c].accessToken = <<"tokA">>
        /\ tokenFile.kind = "json"

----------------------------------------------------------------------------
(* C22 *)

\* the handler run is over and its last tool method, if any, did not return
RunFailed(call) ==
    /\ call.pc = "done"
    /\ Len(call.ops) = 0 \/ ~call.ops[Len(call.ops)].out.ok

----------------------------------------------------------------------------
(* C23 *)

\* the request lacks an argument its tool requires
MissingArgument(call) ==
    \/ call.name = <<"deploy_website">> /\ ~Truthy(call.args.zipFile.text)
    \/ call.name \in {<<"get_website">>, <<"delete_website">>}
       /\ ~Truthy(call.args.websiteId)

\* C23: a tool call that lacks a required argument fails before any network
\* call, whatever the token file holds: its run starts no authorize(), so no
\* listener is opened, and makes no POST.
C23_FailFast ==
    \A c \in Slots :
        (calls[c].pc # "idle" /\ MissingArgument(calls[c]))
        => /\ Len(calls[c].auths) = 0
           /\ \A i \in 1..Len(calls[c].ops) : calls[c].ops[i].out.posts = 0

\* get_website without websiteId, no usable token stored: the listener of the
\* login is up and the arguments have not been looked at
C23_Witness ==
    \E c \in Slots :
        /\ MissingArgument(calls[c])
        /\ calls[c].pc = "ensureAuth"
        /\ attempts[calls[c].auths[1]].server = "listening"

----------------------------------------------------------------------------
(* C24 *)

\* the backend refused the token of the first operation of the run
BackendRefused(call) ==
    /\ Len(call.ops) >= 1
    /\ ~call.ops[1].out.ok
    /\ call.ops[1].out.status = "401"

\* C24: a remote operation started from a CLI command runs under the same
\* policy as one started from a tool call: when the backend refuses the
\* token, the command calls authorize() once more and runs the operation a
\* second time before it ends.
C24_CliPolicy ==
    \A c \in Slots :
        LET call == calls[c] IN
        (call.cmd \in RemoteCommands /\ call.pc = "done" /\ BackendRefused(call))
        => /\ Len(call.auths) = AuthsBeforeCatch(call) + 1
           /\ attempts[call.auths[Len(call.auths)]].result.t = "ok"
                 => Len(call.ops) = 2

\* demox-mcp list with a stored token the backend answers with 401: the
\* command has exited with 1 after one POST and no authorize()
C24_Witness ==
    \E c \in Slots :
        /\ calls[c].cmd = "list"
        /\ calls[c].pc = "done"
        /\ calls[c].cached
        /\ BackendRefused(calls[c])
        /\ Len(calls[c].ops) = 1
        /\ Len(calls[c].auths) = 0
        /\ calls[c].exit = 1

----------------------------------------------------------------------------
(* C25 *)

CliCommands ==
    {"login", "logout", "status", "list", "deploy", "delete", "test", "config",
     "clean"}

\* a step of the command failed: an error was caught, or the deletion of the
\* token file did not succeed
CommandFailed(call) == call.caught # NoError \/ call.unlink = "failed"

\* C25: a CLI command that has ended has exited with 0 when its work
\* succeeded and with 1 when a step of it failed, a failed deletion of the
\* token file by clean included.
C25_ExitCodes ==
    \A c \in Slots :
        LET call == calls[c] IN
        (call.cmd \in CliCommands /\ call.pc = "done")
        => /\ call.exit \in {0, 1}
           /\ call.exit = 0 <=> ~CommandFailed(call)

\* clean could not delete the token file: the file is still there and the
\* command has exited with 0
C25_Witness ==
    \E c \in Slots :
        /\ calls[c].cmd = "clean"
        /\ calls[c].pc = "done"
        /\ calls[c].unlink = "failed"
        /\ Exists(tokenFile)
        /\ calls[c].exit = 0

----------------------------------------------------------------------------
(* C26 *)

\* the authorize() run ended with the state-mismatch error
StateMismatch(att) == att.result = Rejected(MsgStateMismatch)

\* C26: when an authorize() run of a tool call, the login of
\* ensureAuthenticated() or the re-login, fails with the state mismatch, it is
\* the last authorize() of that tool call, and the call ends with an isError
\* response that carries the mismatch message.
C26_MismatchNotRetried ==
    \A c \in Slots :
        LET call == calls[c] IN
        \A i \in 1..Len(call.auths) :
            (call.cmd = "tool" /\ StateMismatch(attempts[call.auths[i]]))
            => /\ i = Len(call.auths)
               /\ call.pc = "done"
               /\ call.resp \in {RespError(MsgStateMismatch),
                                 RespAutoLoginFailed(MsgStateMismatch)}
               /\ call.resp.isError

\* the re-login after an auth failure met a callback with another state
C26_Witness ==
    \E c \in Slots :
        /\ Len(calls[c].auths) >= 1
        /\ HasRelogin(calls[c])
        /\ StateMismatch(Relogin(calls[c]))
        /\ calls[c].resp = RespAutoLoginFailed(MsgStateMismatch)

----------------------------------------------------------------------------
(* C27, C28, C29 *)

\* the deploy operations of the run: the input and what became of it
DeployOps(call) ==
    IF call.name = <<"deploy_website">> THEN 1..Len(call.ops) ELSE {}
IsUrl(text) == startsWith(text, Http) \/ startsWith(text, Https)

\* the operation was rejected before any download, upload or POST
RejectedAtOnce(out) ==
    ~out.ok /\ out.resolved = "none" /\ out.uploads = 0 /\ out.posts = 0

\* C27: deploy takes a URL only when it is an https:// URL that ends in .zip:
\* every other URL, an https:// URL with another ending or an http:// URL with
\* any ending, is rejected as unsupported, nothing being downloaded, uploaded
\* or sent to the backend.
C27_HttpsZipOnly ==
    \A c \in Slots : \A i \in DeployOps(calls[c]) :
        LET text == calls[c].args.zipFile.text
            out == calls[c].ops[i].out
        IN  (IsUrl(text) /\ ~(startsWith(text, Https) /\ endsWith(text, DotZip)))
            => RejectedAtOnce(out) /\ out.msg = MsgUrlNotZip

\* http://h/a.zip was downloaded and uploaded
C27_Witness ==
    \E c \in Slots : \E i \in DeployOps(calls[c]) :
        /\ startsWith(calls[c].args.zipFile.text, Http)
        /\ calls[c].ops[i].out.resolved = "download"
        /\ calls[c].ops[i].out.uploads = 1

\* C28: deploy of a path that is an existing directory archives the
\* directory, however the path is spelled; it is never rejected as base64
\* content or as an unsupported file.
C28_DirectoryArchived ==
    \A c \in Slots : \A i \in DeployOps(calls[c]) :
        LET zipFile == calls[c].args.zipFile
            out == calls[c].ops[i].out
        IN  (~IsUrl(zipFile.text) /\ zipFile.exists /\ zipFile.isDir)
            => /\ out.resolved = "archive"
               /\ ~out.ok => out.msg \notin {MsgBase64, MsgFileType}

\* the directory dist was rejected as base64 content
C28_Witness ==
    \E c \in Slots : \E i \in DeployOps(calls[c]) :
        /\ calls[c].args.zipFile.text = <<"d", "i", "s", "t">>
        /\ calls[c].args.zipFile.isDir
        /\ calls[c].ops[i].out.msg = MsgBase64

\* C29: when the input was made a ZIP file of more than 500 * 1024 * 1024
\* bytes, deploy throws the file-too-large error and neither uploads nor
\* POSTs; a file of exactly that size is uploaded and its deploy action sent.
C29_SizeLimit ==
    \A c \in Slots : \A i \in DeployOps(calls[c]) :
        LET zipFile == calls[c].args.zipFile
            out == calls[c].ops[i].out
        IN  ResolveInput(zipFile).ok
            => /\ zipFile.size > 500 * 1024 * 1024
                    => /\ ~out.ok
                       /\ out.msg = MsgTooLarge
                       /\ out.uploads = 0
                       /\ out.posts = 0
               /\ zipFile.size <= 500 * 1024 * 1024
                    => /\ out.uploads = 1
                       /\ out.posts = 1
                       /\ ~out.ok => out.msg # MsgTooLarge

\* the archive of a directory was one byte over the limit and deploy threw
\* before the upload
C29_Witness ==
    \E c \in Slots : \E i \in DeployOps(calls[c]) :
        /\ calls[c].args.zipFile.size = MaxFileSize + 1
        /\ calls[c].ops[i].out.resolved = "archive"
        /\ calls[c].ops[i].out.msg = MsgTooLarge
        /\ calls[c].ops[i].out.uploads = 0

----------------------------------------------------------------------------
(* Expiry warning: stored records around three and four days of validity *)

\* remaining validity of the stored record when the process starts
RemainingCases ==
    {WarnDays * Day - 1, WarnDays * Day, WarnDays * Day + 1,
     (WarnDays + 1) * Day - 1, (WarnDays + 1) * Day, TokenLifetime}

InitExpiry ==
    /\ now = Start
    /\ tokenFile \in { FileJson(StoredToken(Start + r)) : r \in RemainingCases }
    /\ currentToken = NoToken
    /\ attempts = << >>
    /\ calls = [c \in Slots |-> IdleCall]

SpecExpiry == InitExpiry /\ [][Next]_vars

----------------------------------------------------------------------------
(* C30 *)

\* the time left on the record a call loaded, at the moment it loaded it
Remaining(call) == call.loaded.expiresAt - call.loadedAt

\* C30: when ensureAuthenticated() returns the cached token, the expiry
\* warning is emitted exactly when expiresAt - now is at most 3 days, and no
\* warning is emitted when more than 3 days remain
C30_WarnWithinThreeDays ==
    \A c \in Slots :
        (calls[c].pc # "idle" /\ calls[c].cached)
            => (calls[c].warned <=> Remaining(calls[c]) <= WarnDays * Day)

\* a cached token with three days and five minutes left was returned with
\* the warning
C30_Witness ==
    \E c \in Slots :
        /\ calls[c].pc # "idle"
        /\ calls[c].cached
        /\ Remaining(calls[c]) = WarnDays * Day + 1
        /\ calls[c].warned

----------------------------------------------------------------------------
(* Two tool calls in one server process: the handler is async, a second
   request is handled while the first awaits its login *)

CallSlots == {1, 2}

\* an uncaught exception has ended the process: nothing runs any more
Terminated == \E a \in 1..Len(attempts) : attempts[a].server = "EADDRINUSE"

\* server.listen(39897) while a server of the same process is bound to the
\* port: the new server emits 'error' (EADDRINUSE). startLocalServer registers
\* no 'error' listener, so the event is thrown as an uncaught exception
ListenBusy(a) ==
    /\ attempts[a].phase = "open"
    /\ \E b \in 1..Len(attempts) : attempts[b].server = "listening"
    /\ attempts' = [attempts EXCEPT ![a] =
           [@ EXCEPT !.phase = "wait", !.server = "EADDRINUSE", !.listenAt = now,
                     !.srvTimer = "pending", !.raceTimer = "pending"]]
    /\ UNCHANGED <<now, tokenFile, currentToken, calls>>

InitConcurrent ==
    /\ now = Start
    /\ tokenFile = FileAbsent
    /\ currentToken = NoToken
    /\ attempts = << >>
    /\ calls = [c \in CallSlots |-> IdleCall]

NextConcurrent ==
    \/ \E c \in CallSlots : ~Terminated /\ StartCall(c, SessionRequest)
    \/ \E a \in 1..Len(attempts) : ~Terminated /\ Listen(a)
    \/ \E a \in 1..Len(attempts) : ~Terminated /\ ListenBusy(a)
    \/ \E a \in 1..Len(attempts) : \E q \in SessionCallbacks :
            ~Terminated /\ attempts[a].promise = Pending /\ Request(a, q)
    \/ \E a \in 1..Len(attempts) : ~Terminated /\ ServerTimeout(a)
    \/ \E a \in 1..Len(attempts) : ~Terminated /\ RaceTimeout(a)
    \/ \E a \in 1..Len(attempts), res \in SaveOutcomes :
            ~Terminated /\ SaveToken(a, res)
    \/ \E c \in CallSlots : ~Terminated /\ Operate(c, ReplyOk(<<"r1">>))
    \/ ~Terminated /\ Tick

SpecConcurrent == InitConcurrent /\ [][NextConcurrent]_vars

----------------------------------------------------------------------------
(* C31 *)

\* C31: when two tool calls are handled concurrently and both need a login,
\* at most one listener is bound to port 39897 at any time, and the failure
\* of the second attempt to bind the port never terminates the process or
\* leaves a call without a response
C31_BindFailureSurvived ==
    /\ Cardinality({ a \in 1..Len(attempts) : attempts[a].server = "listening" }) <= 1
    /\ ~Terminated

\* the second call's listen() failed while the first call's listener was
\* bound: the process is gone and neither call has a response
C31_Witness ==
    \E a, b \in 1..Len(attempts) :
        /\ attempts[a].server = "listening"
        /\ attempts[b].server = "EADDRINUSE"
        /\ attempts[a].owner # attempts[b].owner
        /\ \A c \in CallSlots : calls[c].pc # "idle" /\ calls[c].resp = NoResp

----------------------------------------------------------------------------
(* C32 *)

\* the outcome of an authorize() run follows from the settlement of its race
OutcomeOf(att) ==
    \/ att.result = Pending
    \/ att.result.t = "ok" /\ att.race.t = "ok"
          /\ att.result.v = att.race.v.accessToken
    \/ att.result.t = "err" /\ att.race = att.result
    \/ att.result = Rejected(MsgSaveFailed) /\ att.race.t = "ok"

\* the race is settled by the promise of startLocalServer, whose timer fires
\* before that of createTimeout
C32_Inv ==
    \A a \in 1..Len(attempts) :
        /\ attempts[a].race # Pending => attempts[a].race = attempts[a].promise
        /\ OutcomeOf(attempts[a])

\* no event changes a settled promise, race or result, and the record that is
\* written is the one the first event resolved the promise with
C32_Step ==
    /\ \A a \in 1..Len(attempts) :
          /\ attempts[a].promise # Pending
                => attempts'[a].promise = attempts[a].promise
          /\ attempts[a].race # Pending => attempts'[a].race = attempts[a].race
          /\ attempts[a].result # Pending
                => attempts'[a].result = attempts[a].result
          /\ attempts[a].first # NoRequest
                => attempts'[a].first = attempts[a].first
    /\ (tokenFile' # tokenFile \/ currentToken' # currentToken)
          => \/ \E a \in 1..Len(attempts) :
                  /\ attempts[a].phase = "save"
                  /\ attempts[a].promise.t = "ok"
                  /\ tokenFile' = FileJson(attempts[a].promise.v)
                  /\ currentToken' = attempts[a].promise.v
             \/ \E c \in Slots :
                  /\ calls[c].pc = "idle" /\ calls'[c].cached
                  /\ tokenFile' = tokenFile

\* C32: an authorize() attempt settles exactly once: its outcome is fixed by
\* the first event among callback requests and timer firings, and every later
\* event of the same attempt (a request with a valid token after a rejection,
\* an error request after a success, a timer firing after a callback) changes
\* neither the outcome nor the stored credential
C32_SettlesOnce == []C32_Inv /\ [][C32_Step]_vars

\* an attempt rejected by its first request that has since handled a later
\* request and seen both its timers fire, its outcome still the first one
C32_Witness ==
    \E a \in 1..Len(attempts) :
        /\ attempts[a].first # NoRequest
        /\ attempts[a].first.state = "other"
        /\ attempts[a].late > 0
        /\ attempts[a].srvTimer = "fired"
        /\ attempts[a].raceTimer = "fired"
        /\ attempts[a].promise = Rejected(MsgStateMismatch)
        /\ attempts[a].result = Rejected(MsgStateMismatch)

----------------------------------------------------------------------------
(* C33 *)

\* a timer of run a fires in this step, run a having returned or thrown
StaleTimerFires(a) ==
    /\ attempts[a].result # Pending
    /\ \/ attempts[a].srvTimer = "pending" /\ attempts'[a].srvTimer = "fired"
       \/ attempts[a].raceTimer = "pending" /\ attempts'[a].raceTimer = "fired"

C33_Step ==
    \A a \in 1..Len(attempts) :
        StaleTimerFires(a)
            => /\ \A b \in 1..Len(attempts) : b # a => attempts'[b] = attempts[b]
               /\ attempts[a].server = "closed"
               /\ attempts'[a].server = "closed"
               /\ attempts'[a].promise = attempts[a].promise
               /\ attempts'[a].race = attempts[a].race
               /\ attempts'[a].result = attempts[a].result
               /\ calls' = calls
               /\ tokenFile' = tokenFile
               /\ currentToken' = currentToken

\* C33: a timer left pending by an earlier authorize() attempt of the process
\* never closes the listener of a later attempt and never rejects or
\* resolves the later attempt: when it fires it acts only on the earlier
\* attempt's own, already closed, listener
C33_StaleTimerHarmless == [][C33_Step]_vars

\* the timer of a login that succeeded has fired while the re-login of the
\* same call, which began to listen before that timer was due, still listens
\* and waits for its callback
C33_Witness ==
    \E a, b \in 1..Len(attempts) :
        /\ a < b
        /\ attempts[a].result.t = "ok"
        /\ attempts[a].srvTimer = "fired"
        /\ attempts[b].server = "listening"
        /\ attempts[b].listenAt < Deadline(attempts[a])
        /\ attempts[b].promise = Pending
        /\ attempts[b].result = Pending

----------------------------------------------------------------------------
(* C34 *)

\* the four ways a login fails before saveToken is reached
LoginFailures ==
    { MsgStateMismatch, MsgMissingParams, MsgLoginTimeout }
    \cup { MsgDenied(q.error) : q \in { p \in CallbackParams : Truthy(p.error) } }
FailedLogin(att) == att.result.t = "err" /\ att.result.msg \in LoginFailures

\* a run that failed in one of these ways has written nothing, and came from
\* waiting straight to its end
C34_Inv ==
    \A a \in 1..Len(attempts) :
        FailedLogin(attempts[a])
            => ~attempts[a].saved /\ attempts[a].race = attempts[a].result

\* no step taken while a run is opening the browser or waiting for its
\* callback, and no step that starts a run, changes the file or the current
\* token: from its start to its failure the store is as it was
C34_Step ==
    /\ \A a \in 1..Len(attempts) :
          attempts[a].phase \in {"open", "wait"}
              => tokenFile' = tokenFile /\ currentToken' = currentToken
    /\ Len(attempts') > Len(attempts)
          => tokenFile' = tokenFile /\ currentToken' = currentToken

\* C34: an authorize() run that fails through an error callback, a state
\* mismatch, missing parameters or a timeout leaves the credential file and
\* the in-memory current token exactly as they were before the run; a failed
\* re-login does not delete or alter a previously stored record
C34_FailureLeavesStore == []C34_Inv /\ [][C34_Step]_vars

\* the first login of a call saved its record, the re-login of the same call
\* failed by state mismatch, and file and current token still hold the record
\* of the first login
C34_Witness ==
    \E c \in Slots :
        /\ Len(calls[c].auths) = 2
        /\ attempts[calls[c].auths[1]].saved
        /\ attempts[calls[c].auths[2]].result = Rejected(MsgStateMismatch)
        /\ tokenFile = FileJson(attempts[calls[c].auths[1]].promise.v)
        /\ currentToken = attempts[calls[c].auths[1]].promise.v

----------------------------------------------------------------------------
(* C35 *)

\* the login started by ensureAuthenticated() of the run has thrown msg
InitialLoginFailed(call, msg) ==
    /\ ~call.cached
    /\ Len(call.auths) >= 1
    /\ attempts[call.auths[1]].result = Rejected(msg)

\* C35: in the tool-call handler a failure of ensureAuthenticated() is
\* classified by the same message heuristic as an operation failure: an
\* initial login that fails by timeout (its message carries the login
\* marker) makes the handler start a second authorize(), one that fails by
\* state mismatch or missing parameters starts none and is returned as the
\* error; a tool call runs at most two authorize() attempts
C35_InitialLoginClassified ==
    \A c \in Slots :
        LET call == calls[c] IN
        /\ Len(call.auths) <= 2
        /\ InitialLoginFailed(call, MsgLoginTimeout)
              => /\ isAuthError(MsgLoginTimeout)
                 /\ call.caught = [msg |-> MsgLoginTimeout, from |-> "authorize"]
                 /\ Len(call.auths) = 2
                 /\ call.ops = << >> \/ call.pc \in {"op2", "done"}
        /\ \A msg \in {MsgStateMismatch, MsgMissingParams} :
              InitialLoginFailed(call, msg)
                  => /\ ~isAuthError(msg)
                     /\ Len(call.auths) = 1
                     /\ call.pc = "done"
                     /\ call.ops = << >>
                     /\ call.resp = RespError(msg)

\* the initial login timed out, the second authorize() the handler started
\* succeeded and the retry of the tool has answered
C35_Witness ==
    \E c \in Slots :
        /\ InitialLoginFailed(calls[c], MsgLoginTimeout)
        /\ Len(calls[c].auths) = 2
        /\ attempts[calls[c].auths[2]].result.t = "ok"
        /\ calls[c].pc = "done"
        /\ Len(calls[c].ops) = 1

----------------------------------------------------------------------------
(* Requests with their path: req.url is a path and a query string, of which
   the handler reads url.searchParams *)

Paths == { <<"/callback">>, <<"/">>, <<"/favicon.ico">> }

\* the request for path with the query parameters q
HttpRequest(path, q) == [path |-> path] @@ q

PathRequests ==
    { HttpRequest(path, q) :
        path \in Paths,
        q \in { Callback(Null, Null, Null),
                Callback(Null, <<"tokA">>, <<"s1">>),
                Callback(Null, <<"tokB">>, <<"s2">>),
                Callback(<<"access_denied">>, Null, Null) } }

NextPath ==
    \/ \E c \in Slots : StartCall(c, SessionRequest)
    \/ \E a \in 1..Len(attempts) : Listen(a)
    \/ \E a \in 1..Len(attempts) : \E q \in PathRequests : Request(a, q)
    \/ \E a \in 1..Len(attempts) : ServerTimeout(a)
    \/ \E a \in 1..Len(attempts) : RaceTimeout(a)
    \/ \E a \in 1..Len(attempts), res \in SaveOutcomes : SaveToken(a, res)
    \/ \E c \in Slots, reply \in BackendReplies : Operate(c, reply)
    \/ Tick

SpecPath == InitSession /\ [][NextPath]_vars

----------------------------------------------------------------------------
(* C36 *)

\* the first request the run handled carried none of the callback parameters
NoParams(first) == ~first.error /\ ~(first.token /\ first.state # "none")

\* C36: the listener treats every HTTP request it receives as the callback,
\* whatever its path: the first request on any path settles the attempt and
\* closes the listener, and a request without the callback parameters on
\* another path than /callback fails the login with the missing-parameters
\* error
C36_AnyPathSettles ==
    \A a \in 1..Len(attempts) :
        LET att == attempts[a] IN
        att.first # NoRequest
            => /\ att.first.q.path \in Paths
               /\ att.promise # Pending
               /\ att.server = "closed"
               /\ NoParams(att.first) => att.promise = Rejected(MsgMissingParams)
               /\ (~att.first.error /\ att.first.token /\ att.first.state = "same")
                     => att.promise.t = "ok"

\* the first request was GET /favicon.ico without parameters: the login has
\* failed with the missing-parameters error and the listener is closed
C36_Witness ==
    \E a \in 1..Len(attempts) :
        /\ attempts[a].first # NoRequest
        /\ attempts[a].first.q.path = <<"/favicon.ico">>
        /\ NoParams(attempts[a].first)
        /\ attempts[a].server = "closed"
        /\ attempts[a].result = Rejected(MsgMissingParams)

----------------------------------------------------------------------------
(* Termination: with the event loop's scheduling, the write of the token
   file and every invocation of the remote operation come to an end *)

Completion ==
    /\ WF_vars(\E a \in 1..Len(attempts), res \in SaveOutcomes : SaveToken(a, res))
    /\ WF_vars(\E c \in Slots, reply \in BackendReplies : Operate(c, reply))

\* the store is empty or holds a fresh record
InitTerminate ==
    /\ now = Start
    /\ tokenFile \in {FileAbsent, FileJson(StoredToken(Start + TokenLifetime))}
    /\ currentToken = NoToken
    /\ attempts = << >>
    /\ calls = [c \in Slots |-> IdleCall]

SpecTerminate == InitTerminate /\ [][Next]_vars /\ Fairness /\ Completion

----------------------------------------------------------------------------
(* C37 *)

\* authorize() run a has been called / has returned or thrown
Called(a) == a <= Len(attempts)
Settled(a) == a <= Len(attempts) /\ attempts[a].result # Pending

\* C37: every authorize() call eventually settles (returns a token or
\* throws) provided the timer eventually fires, and hence every tool call
\* eventually returns a response provided each invocation of the remote
\* operation terminates; no tool call waits forever for a callback
C37_Terminates ==
    /\ \A a \in AttemptIds : Called(a) ~> Settled(a)
    /\ \A c \in Slots : (calls[c].pc # "idle") ~> (calls[c].resp # NoResp)

\* a tool call has answered after both its logins ran into the timeout, no
\* request having reached either listener
C37_Witness ==
    \E c \in Slots :
        /\ calls[c].resp # NoResp
        /\ Len(calls[c].auths) = 2
        /\ \A i \in 1..2 :
              /\ attempts[calls[c].auths[i]].result = Rejected(MsgLoginTimeout)
              /\ attempts[calls[c].auths[i]].first = NoRequest

====
